---- MODULE Spec2Model ----
(***************************************************************************)
(* go-tasty: the authenticated-session lifecycle of gotasty.Session.        *)
(*                                                                         *)
(* One Session object is shared by a set of goroutines (Callers).  Every   *)
(* dispatched operation starts with Session.restyClient, which checks the  *)
(* session token's expiry and, when it finds it expired, exchanges the     *)
(* remember-me token for a new session token under Session.RefreshLocker.  *)
(* restyClient is modelled statement by statement where a statement reads  *)
(* or writes a field of the Session that another goroutine can touch.      *)
(*                                                                         *)
(* Time is an integer count of clock units, Second units to the second.    *)
(* The remote API is the environment: a request may fail in the transport, *)
(* come back with a status >= 400, or come back 2xx with a body whose      *)
(* data.session-token is a fresh token or absent.  A panic ends the call of *)
(* the goroutine it is raised in, with result "panic"; the other callers   *)
(* go on, as they do when the panic is recovered, and every behaviour of a *)
(* program that dies of it is a prefix of one of these.                    *)
(*                                                                         *)
(* Spec is the Session shared by the callers of restyClient.  SpecOps is   *)
(* the Session used by one goroutine that dispatches operations (Accounts, *)
(* Balance, BalanceSnapshot, Positions, Transactions, Orders, SubmitOrder, *)
(* DeleteOrder, Delete): each calls restyClient, whose steps are those of  *)
(* Spec, then sends its request and makes its result of the API's answer.  *)
(* SpecFair is Spec under the scheduling of the goroutines, for what the   *)
(* callers eventually do.  SpecDecode is the decoders by themselves (the   *)
(* FromString functions and String methods of the enums, parseOrderStatus, *)
(* parseEffectOnBuyingPower, parseFeeInfo, parseErrors), each applied to   *)
(* each of a set of inputs.                                                *)
(***************************************************************************)
EXTENDS Integers, FiniteSets, Sequences, TLC

\* ---------------------------------------------------------------- bounds
NumCallers == 2        \* goroutines sharing the Session
MaxCalls   == 2        \* restyClient invocations in one behaviour
MaxTicks   == 2        \* advances of the clock in one behaviour
MaxErrors  == 2        \* entries of the errors and warnings arrays of a response
Second     == 2        \* clock units per second (time.Time is finer than a second)
MaxLen     == 3     \* elements of an array of a decoded document, at most

\* ------------------------------------------------------ program constants
Minute == 60 * Second
Hour   == 60 * Minute

\* time.Now().Add(-5 * time.Minute): the buffer of restyClient
Buffer == 5 * Minute

\* resp.ReceivedAt().Add(24 * time.Hour)
SessionTTL == 24 * Hour

\* resp.ReceivedAt().Add(28 * 24 * time.Hour)
RememberTTL == 28 * 24 * Hour

\* time.Time{}: the zero time, long before every instant of the model
ZeroTime == 0 - RememberTTL

\* an atomic.Value nothing was stored in: Load() returns nil
Nil == -1

\* the string "": gjson's String() of an absent path, Go's zero string
EmptyString == 0

sandboxApiURL == "https://api.cert.tastyworks.com"
apiURL == "https://api.tastyworks.com"
sandboxAccountStreamerURL == "wss://streamer.cert.tastyworks.com"
accountStreamerURL == "wss://streamer.tastyworks.com"

ErrSessionExpired == "session token is expired"
ErrRememberTokenExpired == "remember-me token is expired"

Callers == 1..NumCallers

\* how far the clock moves in one advance.  From the login they lead to the
\* instants around the expiry check (ExpiresOn - 5min - 1s, ExpiresOn - 5min,
\* ExpiresOn + 5min, ExpiresOn + 5min + 1s) and around RememberMeExpiresOn
Jumps == {Second, SessionTTL - Buffer - Second, SessionTTL + Buffer, RememberTTL}

VARIABLES
    now,          \* time.Now()
    ticks,        \* clock advances so far
    session,      \* the fields of *Session
    mutex,        \* *session.RefreshLocker: 0 unlocked, else the caller holding it
    pc,           \* position of each caller in restyClient
    body,         \* remember-token in the body of the caller's POST /sessions
    resp,         \* the response the caller received
    calls,        \* restyClient invocations so far
    issued,       \* 2xx responses the API has sent to POST /sessions
    returned,     \* what the last restyClient to return returned
    found,        \* history: session token the caller's expiry check found expired
    during,       \* history: pre-refresh token of the refresh in progress at entry
    preRefresh,   \* history: session token when the lock holder took the lock
    accepted,     \* history: remember tokens the API accepted in an exchange
    expiryOf,     \* history: session token -> the expiry issued with it
    exchangesFor, \* history: token found expired -> exchanges sent for it, not failed
    clientsFor,   \* history: token found expired -> tokens of the clients returned
    login,        \* history: the options and the response of the NewSession call
    op,           \* the dispatched operation: name, stage, arguments, the API's answer
    request,      \* the resource request the operation sent
    outcome,      \* what the operation returned
    failed        \* history: the first ErrSessionExpired or ErrRememberTokenExpired
                  \* an operation has returned

vars == <<now, ticks, session, mutex, pc, body, resp, calls, issued, returned,
          found, during, preRefresh, accepted, expiryOf, exchangesFor, clientsFor,
          login, op, request, outcome, failed>>

dispatch == <<login, op, request, outcome, failed>>

callerVars == <<pc, body, resp, found, during>>

history == <<accepted, expiryOf, exchangesFor, clientsFor>>

\* ------------------------------------------------------------ the Session
NoResp == [ReceivedAt |-> ZeroTime, sessionToken |-> Nil, rememberToken |-> Nil]

NoReturn == [result |-> "none", auth |-> Nil]

\* the k-th 2xx response of POST /sessions: a session token and a remember
\* token no earlier response carried; data.session-token may be absent
SessionTokenOf(k) == 2 * k - 1
RememberTokenOf(k) == 2 * k
Response(k, absent) ==
    [ReceivedAt |-> now,
     sessionToken |-> IF absent THEN EmptyString ELSE SessionTokenOf(k),
     rememberToken |-> RememberTokenOf(k)]

\* t.Before(u)
Before(t, u) == t < u

\* f with n added to its value at key k, 0 where f has no k
Bump(f, k, n) ==
    IF k \in DOMAIN f THEN [f EXCEPT ![k] = @ + n] ELSE f @@ (k :> n)

\* f with v added to its set at key k
Put(f, k, v) ==
    IF k \in DOMAIN f THEN [f EXCEPT ![k] = @ \cup {v}] ELSE f @@ (k :> {v})

\* a value of Token that names a token
IsToken(t) == t \notin {Nil, EmptyString}

\* the expiries issued so far, with that of the session token of response r
Issue(f, r) ==
    IF IsToken(r.sessionToken)
    THEN f @@ (r.sessionToken :> r.ReceivedAt + SessionTTL)
    ELSE f

\* -------------------------------------------------------------- the clock
Tick(d) ==
    /\ ticks < MaxTicks
    /\ now' = now + d
    /\ ticks' = ticks + 1
    /\ UNCHANGED <<dispatch, session, mutex, callerVars, calls, issued, returned,
                   preRefresh, history>>

\* ------------------------------------------------------------- NewSession
\* NewSession that switches the API's URL to the sandbox but not the account
\* streamer's
NewSession_StreamerNotSandbox(opt, r) ==
    [AuthenticatedOn |-> r.ReceivedAt,
     ExpiresOn |-> r.ReceivedAt + SessionTTL,
     RememberMeExpiresOn |->
         IF opt.RememberMe THEN r.ReceivedAt + RememberTTL ELSE ZeroTime,
     Name |-> "name", Nickname |-> "nickname", Email |-> "email",
     ExternalID |-> "external-id", Username |-> "login",
     ApiURL |-> IF opt.Sandbox THEN sandboxApiURL ELSE apiURL,
     AccountStreamerURL |-> accountStreamerURL,
     Token |-> r.sessionToken,
     RememberToken |-> IF opt.RememberMe THEN r.sessionToken ELSE Nil,
     Debug |-> opt.Debug,
     RefreshLocker |-> "mutex"]

\* lines 414-443: the Session NewSession returns on a 2xx response r
NewSession(opt, r) ==
    [AuthenticatedOn |-> r.ReceivedAt,
     ExpiresOn |-> r.ReceivedAt + SessionTTL,
     RememberMeExpiresOn |->
         IF opt.RememberMe THEN r.ReceivedAt + RememberTTL ELSE ZeroTime,
     Name |-> "name", Nickname |-> "nickname", Email |-> "email",
     ExternalID |-> "external-id", Username |-> "login",
     ApiURL |-> IF opt.Sandbox THEN sandboxApiURL ELSE apiURL,
     AccountStreamerURL |->
         IF opt.Sandbox THEN sandboxAccountStreamerURL ELSE accountStreamerURL,
     Token |-> r.sessionToken,
     RememberToken |-> IF opt.RememberMe THEN r.sessionToken ELSE Nil,
     Debug |-> opt.Debug,
     RefreshLocker |-> "mutex"]

SessionOpts == [RememberMe : BOOLEAN, Sandbox : BOOLEAN, Debug : {FALSE}]

\* ------------------------------------------------ Marshal / NewSessionFromBytes
\* t.Unix(): whole seconds since the epoch, the fraction dropped
Unix(t) == t \div Second

\* time.Unix(sec, 0)
TimeUnix(sec) == sec * Second

\* Token.Load().(string) and RememberToken.Load().(string) panic on an
\* atomic.Value nothing was stored in
MarshalPanics(s) == s.Token = Nil \/ s.RememberToken = Nil

\* the record Marshal encodes (JSON, zstd-compressed; the codec loses nothing
\* of an int64, a string or a bool)
Marshal(s) ==
    [AuthenticatedOn |-> Unix(s.AuthenticatedOn),
     ApiURL |-> s.ApiURL,
     SessionToken |-> s.Token,
     ExpiresOn |-> Unix(s.ExpiresOn),
     RememberToken |-> s.RememberToken,
     RememberExpiresOn |-> Unix(s.RememberMeExpiresOn),
     Name |-> s.Name, Nickname |-> s.Nickname, Email |-> s.Email,
     ExternalID |-> s.ExternalID, Username |-> s.Username,
     Debug |-> s.Debug]

NewSessionFromBytes(data) ==
    [AuthenticatedOn |-> TimeUnix(data.AuthenticatedOn),
     ExpiresOn |-> TimeUnix(data.ExpiresOn),
     RememberMeExpiresOn |-> TimeUnix(data.RememberExpiresOn),
     Name |-> data.Name, Nickname |-> data.Nickname, Email |-> data.Email,
     ExternalID |-> data.ExternalID, Username |-> data.Username,
     ApiURL |-> IF data.ApiURL = sandboxApiURL THEN sandboxApiURL ELSE apiURL,
     AccountStreamerURL |->
         IF data.ApiURL = sandboxApiURL
         THEN sandboxAccountStreamerURL ELSE accountStreamerURL,
     Token |-> data.SessionToken,
     RememberToken |-> data.RememberToken,
     Debug |-> data.Debug,
     RefreshLocker |-> "nil"]

\* the program saves the Session with Marshal and a later run restores it with
\* NewSessionFromBytes: no call is in progress across the restart
RestoreSession ==
    /\ \A c \in Callers : pc[c] = "idle"
    /\ op.stage = "client" => returned.result = "none"
    /\ ~MarshalPanics(session)
    /\ session' = NewSessionFromBytes(Marshal(session))
    /\ mutex' = 0
    /\ returned' = NoReturn
    /\ UNCHANGED <<dispatch, now, ticks, callerVars, calls, issued, preRefresh, history>>

\* ------------------------------------------------------------ restyClient
\* session.ExpiresOn.Before(time.Now().Add(-5 * time.Minute))
SessionTokenExpired == Before(session.ExpiresOn, now - Buffer)

\* return from restyClient without the deferred Unlock: an error leaves the
\* lock taken
Return_Locked(c, r, header) ==
    /\ pc' = [pc EXCEPT ![c] = "idle"]
    /\ returned' = [result |-> r, auth |-> header]
    /\ body' = [body EXCEPT ![c] = Nil]
    /\ resp' = [resp EXCEPT ![c] = NoResp]
    /\ found' = [found EXCEPT ![c] = Nil]
    /\ during' = [during EXCEPT ![c] = Nil]
    /\ mutex' = IF mutex = c /\ r = "ok" THEN 0 ELSE mutex
    /\ preRefresh' = IF mutex = c /\ r = "ok" THEN Nil ELSE preRefresh

\* return from restyClient: the deferred RefreshLocker.Unlock() runs when the
\* caller took the lock, also when the return is a panic unwinding
Return(c, r, header) ==
    /\ pc' = [pc EXCEPT ![c] = "idle"]
    /\ returned' = [result |-> r, auth |-> header]
    /\ body' = [body EXCEPT ![c] = Nil]
    /\ resp' = [resp EXCEPT ![c] = NoResp]
    /\ found' = [found EXCEPT ![c] = Nil]
    /\ during' = [during EXCEPT ![c] = Nil]
    /\ mutex' = IF mutex = c THEN 0 ELSE mutex
    /\ preRefresh' = IF mutex = c THEN Nil ELSE preRefresh

\* restyClient that renews the session token on every call
Call_Eager(c) ==
    /\ pc[c] = "idle"
    /\ calls < MaxCalls
    /\ calls' = calls + 1
    /\ pc' = [pc EXCEPT ![c] = "lock"]
    /\ found' = [found EXCEPT ![c] = session.Token]
    /\ during' = [during EXCEPT ![c] = IF mutex # 0 THEN preRefresh ELSE Nil]
    /\ UNCHANGED <<dispatch, now, ticks, session, mutex, body, resp, issued, returned,
                   preRefresh, history>>

\* lines 580-592: build the client, then the expiry check.  The read of
\* ExpiresOn is not synchronised with a refresher's write of it (line 625): it
\* yields the value before or after that write, which are the two orders of
\* this action and ExchangeOK
Call(c) ==
    /\ pc[c] = "idle"
    /\ calls < MaxCalls
    /\ calls' = calls + 1
    /\ pc' = [pc EXCEPT ![c] = IF SessionTokenExpired THEN "lock" ELSE "attach"]
    /\ found' = [found EXCEPT ![c] = IF SessionTokenExpired THEN session.Token ELSE Nil]
    /\ during' = [during EXCEPT ![c] = IF mutex # 0 THEN preRefresh ELSE Nil]
    /\ UNCHANGED <<dispatch, now, ticks, session, mutex, body, resp, issued, returned,
                   preRefresh, history>>

\* Lock with a mutex that does not exclude: the caller goes on though another
\* caller holds the lock
Lock_NoExclusion(c) ==
    /\ pc[c] = "lock"
    /\ session.RefreshLocker # "nil"
    /\ mutex' = c
    /\ preRefresh' = session.Token
    /\ pc' = [pc EXCEPT ![c] = "remember"]
    /\ UNCHANGED <<dispatch, now, ticks, session, body, resp, calls, issued, returned,
                   found, during, history>>

\* line 593: session.RefreshLocker.Lock() blocks while another caller holds it
Lock(c) ==
    /\ pc[c] = "lock"
    /\ session.RefreshLocker # "nil"
    /\ mutex = 0
    /\ mutex' = c
    /\ preRefresh' = session.Token
    /\ pc' = [pc EXCEPT ![c] = "remember"]
    /\ UNCHANGED <<dispatch, now, ticks, session, body, resp, calls, issued, returned,
                   found, during, history>>

\* line 593 on a Session whose RefreshLocker is nil: Lock() dereferences the
\* nil *sync.Mutex and the goroutine panics, before the Unlock is deferred
LockNil(c) ==
    /\ pc[c] = "lock"
    /\ session.RefreshLocker = "nil"
    /\ Return(c, "panic", Nil)
    /\ UNCHANGED <<dispatch, now, ticks, session, calls, issued, history>>

\* CheckRemember that forgets the remember-me token it finds expired
CheckRemember_Forgets(c) ==
    /\ pc[c] = "remember"
    /\ LET rememberMe == session.RememberToken IN
         CASE rememberMe = Nil ->
                  Return(c, "panic", Nil) /\ UNCHANGED <<exchangesFor, session>>
           [] rememberMe = EmptyString ->
                  Return(c, ErrSessionExpired, Nil) /\ UNCHANGED <<exchangesFor, session>>
           [] IsToken(rememberMe) /\ Before(session.RememberMeExpiresOn, now) ->
                  /\ Return(c, ErrRememberTokenExpired, Nil)
                  /\ session' = [session EXCEPT !.RememberToken = EmptyString]
                  /\ UNCHANGED exchangesFor
           [] OTHER ->
                  /\ body' = [body EXCEPT ![c] = session.RememberToken]
                  /\ pc' = [pc EXCEPT ![c] = "exchange"]
                  /\ exchangesFor' = Bump(exchangesFor, found[c], 1)
                  /\ UNCHANGED <<returned, resp, found, during, mutex, preRefresh,
                                 session>>
    /\ UNCHANGED <<dispatch, now, ticks, calls, issued, accepted, expiryOf, clientsFor>>

\* lines 599-614: load the remember-me token, check it and its expiry, and
\* POST /sessions with the remember token loaded again at line 613
CheckRemember(c) ==
    /\ pc[c] = "remember"
    /\ LET rememberMe == session.RememberToken IN
         CASE rememberMe = Nil ->
                  \* nil.(string): the type assertion panics
                  Return(c, "panic", Nil) /\ UNCHANGED exchangesFor
           [] rememberMe = EmptyString ->
                  Return(c, ErrSessionExpired, Nil) /\ UNCHANGED exchangesFor
           [] IsToken(rememberMe) /\ Before(session.RememberMeExpiresOn, now) ->
                  Return(c, ErrRememberTokenExpired, Nil) /\ UNCHANGED exchangesFor
           [] OTHER ->
                  /\ body' = [body EXCEPT ![c] = session.RememberToken]
                  /\ pc' = [pc EXCEPT ![c] = "exchange"]
                  /\ exchangesFor' = Bump(exchangesFor, found[c], 1)
                  /\ UNCHANGED <<returned, resp, found, during, mutex, preRefresh>>
    /\ UNCHANGED <<dispatch, now, ticks, session, calls, issued, accepted, expiryOf, clientsFor>>

\* ExchangeFails with ExpiresOn written before the status is looked at
ExchangeFails_WritesExpiry(c, err) ==
    /\ pc[c] = "exchange"
    /\ Return(c, err, Nil)
    /\ session' = [session EXCEPT !.ExpiresOn = now + SessionTTL]
    /\ exchangesFor' = Bump(exchangesFor, found[c], -1)
    /\ UNCHANGED <<dispatch, now, ticks, calls, issued, accepted, expiryOf, clientsFor>>

\* lines 615-621: the request failed in the transport, or its status is >= 400
ExchangeFails(c, err) ==
    /\ pc[c] = "exchange"
    /\ Return(c, err, Nil)
    /\ exchangesFor' = Bump(exchangesFor, found[c], -1)
    /\ UNCHANGED <<dispatch, now, ticks, session, calls, issued, accepted, expiryOf, clientsFor>>

\* what lines 625-629 store from the 2xx response r
RefreshedExpiresOn(r) == r.ReceivedAt + SessionTTL
RefreshedToken(r) == r.sessionToken
RefreshedRememberMeExpiresOn(r) == r.ReceivedAt + RememberTTL
\* line 629 left out: the remember token the exchange used up stays stored
RefreshedRememberToken_Kept(r) == session.RememberToken
RefreshedRememberToken(r) == r.sessionToken

\* lines 623-625: a 2xx response arrived; its body is kept and ExpiresOn written
ExchangeOK(c, absent) ==
    /\ pc[c] = "exchange"
    /\ LET r == Response(issued + 1, absent) IN
         /\ resp' = [resp EXCEPT ![c] = r]
         /\ expiryOf' = Issue(expiryOf, r)
         /\ session' = [session EXCEPT !.ExpiresOn = RefreshedExpiresOn(r)]
    /\ issued' = issued + 1
    /\ accepted' = accepted \cup {body[c]}
    /\ pc' = [pc EXCEPT ![c] = "storeToken"]
    /\ UNCHANGED <<dispatch, now, ticks, mutex, body, calls, returned, found, during,
                   preRefresh, exchangesFor, clientsFor>>

\* line 626
StoreToken(c) ==
    /\ pc[c] = "storeToken"
    /\ session' = [session EXCEPT !.Token = RefreshedToken(resp[c])]
    /\ pc' = [pc EXCEPT ![c] = "storeRemember"]
    /\ UNCHANGED <<dispatch, now, ticks, mutex, body, resp, calls, issued, returned,
                   found, during, preRefresh, history>>

\* the renewal that also records its time as AuthenticatedOn
StoreRemember_Authenticated(c) ==
    /\ pc[c] = "storeRemember"
    /\ session' = [session EXCEPT
                     !.RememberMeExpiresOn = RefreshedRememberMeExpiresOn(resp[c]),
                     !.RememberToken = RefreshedRememberToken(resp[c]),
                     !.AuthenticatedOn = resp[c].ReceivedAt]
    /\ pc' = [pc EXCEPT ![c] = "attach"]
    /\ UNCHANGED <<dispatch, now, ticks, mutex, body, resp, calls, issued, returned,
                   found, during, preRefresh, history>>

\* lines 628-629: both fields are read only under the lock
StoreRemember(c) ==
    /\ pc[c] = "storeRemember"
    /\ session' = [session EXCEPT
                     !.RememberMeExpiresOn = RefreshedRememberMeExpiresOn(resp[c]),
                     !.RememberToken = RefreshedRememberToken(resp[c])]
    /\ pc' = [pc EXCEPT ![c] = "attach"]
    /\ UNCHANGED <<dispatch, now, ticks, mutex, body, resp, calls, issued, returned,
                   found, during, preRefresh, history>>

\* lines 632-634: attach the session token and return the client
Attach(c) ==
    /\ pc[c] = "attach"
    /\ Return(c, "ok", session.Token)
    /\ clientsFor' = IF IsToken(found[c])
                     THEN Put(clientsFor, found[c], session.Token)
                     ELSE clientsFor
    /\ UNCHANGED <<dispatch, now, ticks, session, calls, issued, accepted, expiryOf,
                   exchangesFor>>

\* ------------------------------------------------------ response documents
\* a JSON object: a function from its keys to their values; NoDoc has no key,
\* and stands for an absent object as for an empty one (gjson's Get on a
\* Result that does not exist finds nothing)
NoDoc == <<>>

\* gjson.Get(doc, path).String(): "" when the path is absent
GetString(doc, path) == IF path \in DOMAIN doc THEN doc[path] ELSE ""

\* gjson.Get(doc, path).Array(): empty when the path is absent; a value that
\* is no array is to Array() the array of that one value, and is written as
\* that array in the documents here
GetArray(doc, path) == IF path \in DOMAIN doc THEN doc[path] ELSE <<>>

\* gjson.Get(doc, path): the object at the path
Get(doc, path) == IF path \in DOMAIN doc THEN doc[path] ELSE NoDoc

\* gjson.Get(doc, path).Float(): 0 when the path is absent
GetFloat(doc, path) == IF path \in DOMAIN doc THEN doc[path] ELSE 0

\* gjson.Get(doc, path).Bool(): false when the path is absent
GetBool(doc, path) == IF path \in DOMAIN doc THEN doc[path] ELSE FALSE

\* Time() that gives the Unix epoch when the path is absent
GetTime_Epoch(doc, path) == IF path \in DOMAIN doc THEN TimeUnix(doc[path]) ELSE TimeUnix(0)

\* gjson.Get(doc, path).Time(): the time the document gives in seconds, the
\* zero time when the path is absent
GetTime(doc, path) == IF path \in DOMAIN doc THEN TimeUnix(doc[path]) ELSE ZeroTime

\* ------------------------------------------------------------------ enums
Desc == 0
Asc == 1

\* SortDirection.String()
SortDirectionString(sortDirection) ==
    CASE sortDirection = Desc -> "desc"
      [] sortDirection = Asc -> "asc"
      [] OTHER -> "UNK"

UndefinedInstrument == 0
Cryptocurrency == 1
Equity == 2
EquityOffering == 3
EquityOption == 4
Future == 5
FutureOption == 6

\* InstrumentTypeChoice.String()
InstrumentTypeString(instrumentType) ==
    CASE instrumentType = Cryptocurrency -> "Cryptocurrency"
      [] instrumentType = Equity -> "Equity"
      [] instrumentType = EquityOffering -> "Equity Offering"
      [] instrumentType = EquityOption -> "Equity Option"
      [] instrumentType = Future -> "Future"
      [] instrumentType = FutureOption -> "Future Option"
      [] OTHER -> "UNK"

UndefinedAction == 0
SellToOpen == 1
SellToClose == 2
BuyToOpen == 3
BuyToClose == 4
Sell == 5
Buy == 6

\* ActionType.String()
ActionTypeString(actionType) ==
    CASE actionType = SellToOpen -> "Sell to Open"
      [] actionType = SellToClose -> "Sell to Close"
      [] actionType = BuyToOpen -> "Buy to Open"
      [] actionType = BuyToClose -> "Buy to Close"
      [] actionType = Sell -> "Sell"
      [] actionType = Buy -> "Buy"
      [] OTHER -> "UNK"

\* InstrumentTypeFromString
InstrumentTypeFromString(input) ==
    CASE input = "Cryptocurrency" -> Cryptocurrency
      [] input = "Equity" -> Equity
      [] input = "Equity Offering" -> EquityOffering
      [] input = "Equity Option" -> EquityOption
      [] input = "Future" -> Future
      [] input = "Future Option" -> FutureOption
      [] OTHER -> UndefinedInstrument

\* ActionTypeFromString
ActionTypeFromString(input) ==
    CASE input = "Sell to Open" -> SellToOpen
      [] input = "Sell to Close" -> SellToClose
      [] input = "Buy to Open" -> BuyToOpen
      [] input = "Buy to Close" -> BuyToClose
      [] input = "Sell" -> Sell
      [] input = "Buy" -> Buy
      [] OTHER -> UndefinedAction

UndefinedOrderType == 0
Limit == 1
Market == 2
MarketableLimit == 3
Stop == 4
StopLimit == 5
NotionalMarket == 6

\* OrderTypeFromString that reads a stop-limit order as "Stop Limit"
OrderTypeFromString_Spaced(input) ==
    CASE input = "Limit" -> Limit
      [] input = "Market" -> Market
      [] input = "Marketable Limit" -> MarketableLimit
      [] input = "Stop" -> Stop
      [] input = "Stop Limit" -> StopLimit
      [] input = "Notional Market" -> NotionalMarket
      [] OTHER -> UndefinedOrderType

\* OrderTypeFromString
OrderTypeFromString(input) ==
    CASE input = "Limit" -> Limit
      [] input = "Market" -> Market
      [] input = "Marketable Limit" -> MarketableLimit
      [] input = "Stop" -> Stop
      [] input = "StopLimit" -> StopLimit
      [] input = "Notional Market" -> NotionalMarket
      [] OTHER -> UndefinedOrderType

\* OrderTypeChoice.String()
OrderTypeString(orderType) ==
    CASE orderType = Limit -> "Limit"
      [] orderType = Market -> "Market"
      [] orderType = MarketableLimit -> "Marketable Limit"
      [] orderType = Stop -> "Stop"
      [] orderType = StopLimit -> "StopLimit"
      [] orderType = NotionalMarket -> "Notional Market"
      [] OTHER -> "UNK"

UndefinedEffect == 0
Credit == 1
Debit == 2

\* EffectFromString
EffectFromString(input) ==
    CASE input = "Credit" -> Credit
      [] input = "Debit" -> Debit
      [] OTHER -> UndefinedEffect

\* Effect.String()
EffectString(effect) ==
    CASE effect = Credit -> "Credit"
      [] effect = Debit -> "Debit"
      [] OTHER -> "UNK"

UndefinedActionCondition == 0
Route == 1
Cancel == 2

\* ActionConditionFromString that falls back on Route
ActionConditionFromString_Route(input) ==
    CASE input = "route" -> Route
      [] input = "cancel" -> Cancel
      [] OTHER -> Route

\* ActionConditionFromString
ActionConditionFromString(input) ==
    CASE input = "route" -> Route
      [] input = "cancel" -> Cancel
      [] OTHER -> UndefinedActionCondition

\* ActionCondition.String()
ActionConditionString(actionCondition) ==
    CASE actionCondition = Route -> "route"
      [] actionCondition = Cancel -> "cancel"
      [] OTHER -> "UNK"

UndefinedIndicatorType == 0
Last == 1
NAT == 2

\* IndicatorFromString
IndicatorFromString(input) ==
    CASE input = "last" -> Last
      [] input = "nat" -> NAT
      [] OTHER -> UndefinedIndicatorType

\* IndicatorType.String()
IndicatorTypeString(indicatorType) ==
    CASE indicatorType = Last -> "last"
      [] indicatorType = NAT -> "nat"
      [] OTHER -> "UNK"

UndefinedComparator == 0
GTE == 1
LTE == 2

\* ComparatorFromString
ComparatorFromString(input) ==
    CASE input = "gte" -> GTE
      [] input = "lte" -> LTE
      [] OTHER -> UndefinedComparator

\* ComparatorType.String()
ComparatorTypeString(comparatorType) ==
    CASE comparatorType = GTE -> "gte"
      [] comparatorType = LTE -> "lte"
      [] OTHER -> "UNK"

\* the enums that have a decoder
Enums ==
    {"InstrumentTypeChoice", "ActionType", "Effect", "OrderTypeChoice",
     "ActionCondition", "IndicatorType", "ComparatorType"}

\* the decoder of each enum
FromString(enum, input) ==
    CASE enum = "InstrumentTypeChoice" -> InstrumentTypeFromString(input)
      [] enum = "ActionType" -> ActionTypeFromString(input)
      [] enum = "Effect" -> EffectFromString(input)
      [] enum = "OrderTypeChoice" -> OrderTypeFromString(input)
      [] enum = "ActionCondition" -> ActionConditionFromString(input)
      [] enum = "IndicatorType" -> IndicatorFromString(input)
      [] enum = "ComparatorType" -> ComparatorFromString(input)

\* the String method of each enum
String(enum, value) ==
    CASE enum = "InstrumentTypeChoice" -> InstrumentTypeString(value)
      [] enum = "ActionType" -> ActionTypeString(value)
      [] enum = "Effect" -> EffectString(value)
      [] enum = "OrderTypeChoice" -> OrderTypeString(value)
      [] enum = "ActionCondition" -> ActionConditionString(value)
      [] enum = "IndicatorType" -> IndicatorTypeString(value)
      [] enum = "ComparatorType" -> ComparatorTypeString(value)

\* the variants each const block defines beside the Undefined one, which is 0
Defined(enum) ==
    CASE enum = "InstrumentTypeChoice" -> Cryptocurrency..FutureOption
      [] enum = "ActionType" -> SellToOpen..Buy
      [] enum = "Effect" -> Credit..Debit
      [] enum = "OrderTypeChoice" -> Limit..NotionalMarket
      [] enum = "ActionCondition" -> Route..Cancel
      [] enum = "IndicatorType" -> Last..NAT
      [] enum = "ComparatorType" -> GTE..LTE

\* the Undefined variant of each enum, the first of its const block
Undefined(enum) ==
    CASE enum = "InstrumentTypeChoice" -> UndefinedInstrument
      [] enum = "ActionType" -> UndefinedAction
      [] enum = "Effect" -> UndefinedEffect
      [] enum = "OrderTypeChoice" -> UndefinedOrderType
      [] enum = "ActionCondition" -> UndefinedActionCondition
      [] enum = "IndicatorType" -> UndefinedIndicatorType
      [] enum = "ComparatorType" -> UndefinedComparator

\* the values an enum's String method is called on: those of its const
\* block, and values of the int type that are none of them
EnumValues == (UndefinedInstrument - 1)..(FutureOption + 1)

\* the strings a decoder is called on: the vocabulary of every enum, those
\* words in another case or spacing, the empty string and "UNK"
EnumInputs ==
    {String(enum, value) : enum \in Enums, value \in EnumValues}
    \cup {"", "limit", "Stop Limit", "Route", "CANCEL", "Last", "NAT", "GTE", "credit",
          "equity", "Buy To Open", "Equity ", "Future Options"}

\* ------------------------------------------------------- query parameters
\* resty's Request.QueryParam is a url.Values: parameter name -> list of values
NoQuery == <<>>

\* req.SetQueryParam(k, v): url.Values.Set
SetQueryParam(q, k, v) == (k :> <<v>>) @@ q

\* req.SetQueryParamsFromValues(url.Values{k: vs}): url.Values.Add of each value
SetQueryParamsFromValues(q, k, vs) ==
    (k :> (IF k \in DOMAIN q THEN q[k] ELSE <<>>) \o vs) @@ q

\* q with the parameter set when the condition holds
SetIf(cond, q, k, v) == IF cond THEN SetQueryParam(q, k, v) ELSE q

\* q with the values added when the condition holds
AddIf(cond, q, k, vs) == IF cond THEN SetQueryParamsFromValues(q, k, vs) ELSE q

\* fmt.Sprint of an int
Sprint(n) == ToString(n)

\* time.Date(1900, 1, 1, 0, 0, 0, 0, time.UTC): an instant between the zero
\* time and the login; only its order among the instants matters
Date1900 == ZeroTime + Hour

\* After that holds of equal times too
After_OrEqual(t, u) == t >= u

\* t.After(u)
After(t, u) == t > u

\* t.Format(time.RFC3339): the instant to the second, the fraction dropped
FormatRFC3339(t) == ToString(Unix(t))

\* ---------------------------------------------------------------- filters
\* the zero PositionFilterOpts
NoPositionFilter ==
    [Symbol |-> "", InstrumentType |-> UndefinedInstrument,
     UnderlyingSymbol |-> <<>>, UnderlyingProductCode |-> "",
     PartitionKeys |-> <<>>, NetPositions |-> FALSE,
     IncludeClosedPositions |-> FALSE, IncludeMarks |-> FALSE]

\* the zero TransactionFilterOpts: Sort is a *SortDirection, nil when not set
NoTransactionFilter ==
    [StartDate |-> ZeroTime, EndDate |-> ZeroTime, Symbol |-> "",
     InstrumentType |-> UndefinedInstrument, UnderlyingSymbol |-> "",
     FuturesSymbol |-> "", Action |-> UndefinedAction, PartitionKey |-> "",
     TransactionTypes |-> <<>>, TransactionSubTypes |-> <<>>, Status |-> <<>>,
     Sort |-> Nil, PerPage |-> 0, PageOffset |-> 0]

\* the zero OrdersFilterOpts
NoOrdersFilter ==
    [StartDate |-> ZeroTime, EndDate |-> ZeroTime, UnderlyingSymbol |-> "",
     UnderlyingInstrumentType |-> UndefinedInstrument, FuturesSymbol |-> "",
     NetPositions |-> FALSE, IncludeClosedPositions |-> FALSE,
     IncludeMarks |-> FALSE, Status |-> <<>>, Sort |-> Nil,
     PerPage |-> 0, PageOffset |-> 0]

\* the dates a caller sets in a filter: around 1900-01-01T00:00:00Z
Dates == {Date1900 - 1, Date1900, Date1900 + 1, Date1900 + Second}

\* the PositionFilterOpts a caller passes: nothing set, one field set, all set
PositionFilters ==
    LET z == NoPositionFilter IN
    {z,
     [z EXCEPT !.Symbol = "AAPL"],
     [z EXCEPT !.InstrumentType = Equity],
     [z EXCEPT !.UnderlyingSymbol = <<"AAPL">>],
     [z EXCEPT !.UnderlyingSymbol = <<"AAPL", "SPY">>],
     [z EXCEPT !.UnderlyingProductCode = "ES"],
     [z EXCEPT !.PartitionKeys = <<"k1", "k2">>],
     [z EXCEPT !.NetPositions = TRUE],
     [z EXCEPT !.IncludeClosedPositions = TRUE],
     [z EXCEPT !.IncludeMarks = TRUE],
     [Symbol |-> "AAPL", InstrumentType |-> EquityOption,
      UnderlyingSymbol |-> <<"AAPL">>, UnderlyingProductCode |-> "ES",
      PartitionKeys |-> <<"k1">>, NetPositions |-> TRUE,
      IncludeClosedPositions |-> TRUE, IncludeMarks |-> TRUE]}

\* the TransactionFilterOpts a caller passes: nothing set, only PerPage or
\* only Sort set, and Sort with one more field set
TransactionFilters ==
    LET z == NoTransactionFilter
        s == [z EXCEPT !.Sort = Desc] IN
    {z, s, [z EXCEPT !.Sort = Asc], [z EXCEPT !.PerPage = 50],
     [s EXCEPT !.PerPage = 50], [s EXCEPT !.PerPage = -1],
     [s EXCEPT !.PageOffset = 2],
     [s EXCEPT !.Symbol = "AAPL"],
     [s EXCEPT !.InstrumentType = Equity],
     [s EXCEPT !.UnderlyingSymbol = "SPY"],
     [s EXCEPT !.FuturesSymbol = "/ES"],
     [s EXCEPT !.Action = BuyToOpen],
     [s EXCEPT !.PartitionKey = "k1"],
     [s EXCEPT !.TransactionTypes = <<"Trade">>],
     [s EXCEPT !.TransactionTypes = <<"Trade", "Money Movement">>],
     [s EXCEPT !.TransactionSubTypes = <<"Dividend">>],
     [s EXCEPT !.Status = <<"Filled">>]}
    \cup {[s EXCEPT !.StartDate = t] : t \in Dates}
    \cup {[s EXCEPT !.EndDate = t] : t \in Dates}

\* the OrdersFilterOpts a caller passes, chosen as the TransactionFilters are
OrdersFilters ==
    LET z == NoOrdersFilter
        s == [z EXCEPT !.Sort = Desc] IN
    {z, s, [z EXCEPT !.Sort = Asc], [z EXCEPT !.PerPage = 50],
     [s EXCEPT !.PerPage = 50], [s EXCEPT !.PerPage = -1],
     [s EXCEPT !.PageOffset = 2],
     [s EXCEPT !.UnderlyingSymbol = "SPY"],
     [s EXCEPT !.UnderlyingInstrumentType = Equity],
     [s EXCEPT !.FuturesSymbol = "/ES"],
     [s EXCEPT !.Status = <<"Filled", "Live">>],
     [s EXCEPT !.NetPositions = TRUE],
     [s EXCEPT !.IncludeClosedPositions = TRUE],
     [s EXCEPT !.IncludeMarks = TRUE]}
    \cup {[s EXCEPT !.StartDate = t] : t \in Dates}
    \cup {[s EXCEPT !.EndDate = t] : t \in Dates}

\* the variadic filterOpts of a call: none, one, or two values
FilterOpts(filters, zero) ==
    {<<>>} \cup {<<f>> : f \in filters} \cup {<<f, zero>> : f \in filters}

\* lines 826 (Positions), 920 (Transactions), 1078 (Orders): the filter is
\* looked at only when more than one value was passed
FilterApplied(filterOpts) == Len(filterOpts) > 1

\* lines 931 and 1089: filter.Sort.String() dereferences the nil pointer of
\* a filter whose Sort is not set
SortPanics(filterOpts) == FilterApplied(filterOpts) /\ filterOpts[1].Sort = Nil

\* lines 825-865: the query parameters of the Positions request
PositionsQuery(filterOpts) ==
    IF ~FilterApplied(filterOpts) THEN NoQuery
    ELSE
      LET filter == filterOpts[1]
          q1 == AddIf(Len(filter.UnderlyingSymbol) > 0, NoQuery,
                      "underlying-symbol[]", filter.UnderlyingSymbol)
          q2 == SetIf(filter.Symbol # "", q1, "symbol", filter.Symbol)
          q3 == SetIf(filter.InstrumentType # UndefinedInstrument, q2,
                      "instrument-type", InstrumentTypeString(filter.InstrumentType))
          q4 == SetIf(filter.IncludeClosedPositions, q3,
                      "include-closed-positions", "true")
          q5 == SetIf(filter.UnderlyingProductCode # "", q4,
                      "underlying-product-code", filter.UnderlyingProductCode)
          q6 == AddIf(Len(filter.PartitionKeys) > 0, q5,
                      "partition-keys[]", filter.PartitionKeys)
          q7 == SetIf(filter.NetPositions, q6, "net-positions", "true")
      IN SetIf(filter.IncludeMarks, q7, "include-marks", "true")

\* lines 923-931 and 1081-1089, which Transactions and Orders share: the
\* pagination parameters and the sort direction of a filter whose Sort is set
PageAndSort(filter) ==
    LET q1 == SetIf(filter.PerPage > 0, NoQuery, "per-page", Sprint(filter.PerPage))
        q2 == SetIf(filter.PageOffset > 0, q1, "page-offset", Sprint(filter.PageOffset))
    IN SetQueryParam(q2, "sort", SortDirectionString(filter.Sort))

\* lines 947-953 and 1097-1103: the date parameters
StartAndEnd(q, filter) ==
    LET q1 == SetIf(After(filter.StartDate, Date1900), q,
                    "start-date", FormatRFC3339(filter.StartDate))
    IN SetIf(After(filter.EndDate, Date1900), q1,
             "end-date", FormatRFC3339(filter.EndDate))

\* lines 919-978: the query parameters of the Transactions request, for
\* filterOpts that do not panic
TransactionsQuery(filterOpts) ==
    IF ~FilterApplied(filterOpts) THEN NoQuery
    ELSE
      LET filter == filterOpts[1]
          q1 == PageAndSort(filter)
          q2 == IF Len(filter.TransactionTypes) = 1
                THEN SetQueryParam(q1, "type", filter.TransactionTypes[1])
                ELSE AddIf(Len(filter.TransactionTypes) > 1, q1,
                           "types[]", filter.TransactionTypes)
          q3 == AddIf(Len(filter.TransactionSubTypes) > 0, q2,
                      "sub-type[]", filter.TransactionSubTypes)
          q4 == StartAndEnd(q3, filter)
          q5 == SetIf(filter.Symbol # "", q4, "symbol", filter.Symbol)
          q6 == SetIf(filter.InstrumentType # UndefinedInstrument, q5,
                      "instrument-type", InstrumentTypeString(filter.InstrumentType))
          q7 == SetIf(filter.UnderlyingSymbol # "", q6,
                      "underlying-symbol", filter.UnderlyingSymbol)
          q8 == SetIf(filter.Action # UndefinedAction, q7,
                      "action", ActionTypeString(filter.Action))
          q9 == SetIf(filter.PartitionKey # "", q8,
                      "partition-key", filter.PartitionKey)
      IN SetIf(filter.FuturesSymbol # "", q9, "futures-symbol", filter.FuturesSymbol)

\* lines 1077-1116: the query parameters of the Orders request, for
\* filterOpts that do not panic
OrdersQuery(filterOpts) ==
    IF ~FilterApplied(filterOpts) THEN NoQuery
    ELSE
      LET filter == filterOpts[1]
          q1 == PageAndSort(filter)
          q2 == AddIf(Len(filter.Status) > 0, q1, "status[]", filter.Status)
          q3 == StartAndEnd(q2, filter)
          q4 == SetIf(filter.UnderlyingSymbol # "", q3,
                      "underlying-symbol", filter.UnderlyingSymbol)
          q5 == SetIf(filter.UnderlyingInstrumentType # UndefinedInstrument, q4,
                      "underlying-instrument-type",
                      InstrumentTypeString(filter.UnderlyingInstrumentType))
      IN SetIf(filter.FuturesSymbol # "", q5, "futures-symbol", filter.FuturesSymbol)

\* -------------------------------------------------- dispatched operations
\* the goroutine that dispatches the operations
Dispatcher == CHOOSE c \in Callers : TRUE

OpNames ==
    {"Accounts", "Balance", "BalanceSnapshot", "Positions", "Transactions", "Orders",
     "SubmitOrder", "DeleteOrder", "Delete"}

\* the answers of the API to a resource request: none (the transport failed),
\* or a status with a body
NoReply == [err |-> TRUE, status |-> 0, body |-> NoDoc]

ErrorBody == "error" :> ("code" :> "validation_error")

Replies(bodies) ==
    {NoReply}
    \cup {[err |-> FALSE, status |-> s, body |-> b] :
              s \in {200, 304}, b \in bodies}
    \cup {[err |-> FALSE, status |-> s, body |-> ErrorBody] :
              s \in {400, 422}}

NoOp == [name |-> "none", stage |-> "none", args |-> <<>>, reply |-> NoReply]

NoRequest ==
    [method |-> "none", path |-> <<>>, query |-> NoQuery, body |-> "", auth |-> Nil]

\* a nil error
NoError == [kind |-> "nil", text |-> "", status |-> 0, body |-> NoDoc]

\* the error restyClient returned, passed on as it is
ClientError(text) == [kind |-> "client", text |-> text, status |-> 0, body |-> NoDoc]

\* the error resty returns when the request got no response
TransportError == [kind |-> "transport", text |-> "", status |-> 0, body |-> NoDoc]

\* fmt.Errorf(format, resp.Status(), resp.Body())
Errorf(format, reply) ==
    [kind |-> "status", text |-> format, status |-> reply.status, body |-> reply.body]

\* a panic unwinding out of the operation
Panic == [kind |-> "panic", text |-> "", status |-> 0, body |-> NoDoc]

NoOutcome == [err |-> NoError, nil |-> TRUE, value |-> NoDoc]

\* return value, nil
Value(v) == [err |-> NoError, nil |-> FALSE, value |-> v]

\* return nil, err
Failure(e) == [err |-> e, nil |-> TRUE, value |-> NoDoc]

AccountNumbers == {"5WT00001"}

\* an operation starts on the Session; it calls restyClient first
Begin(name) ==
    /\ op.stage # "client"
    /\ \A c \in Callers : pc[c] = "idle"
    /\ calls < MaxCalls
    /\ op' = [name |-> name, stage |-> "client", args |-> <<>>, reply |-> NoReply]
    /\ request' = NoRequest
    /\ outcome' = NoOutcome
    /\ returned' = NoReturn
    /\ UNCHANGED <<login, failed, now, ticks, session, mutex, callerVars, calls, issued,
                   preRefresh, history>>

\* the operation's call of restyClient
ClientCall ==
    /\ op.stage = "client"
    /\ returned.result = "none"
    /\ Call(Dispatcher)

\* an operation that sends its request although restyClient returned an error
ClientFails_Sends ==
    /\ op.stage = "client"
    /\ pc[Dispatcher] = "idle"
    /\ returned.result \notin {"none", "ok"}
    /\ op' = [op EXCEPT !.stage = "refused"]
    /\ outcome' = IF returned.result = "panic"
                  THEN Failure(Panic)
                  ELSE Failure(ClientError(returned.result))
    /\ request' = [NoRequest EXCEPT !.method = "GET"]
    /\ failed' = IF failed = "none"
                    /\ returned.result \in {ErrSessionExpired, ErrRememberTokenExpired}
                 THEN returned.result
                 ELSE failed
    /\ UNCHANGED <<login, now, ticks, session, mutex, callerVars, calls,
                   issued, returned, preRefresh, history>>

\* client, err := session.restyClient(); if err != nil { return nil, err };
\* a panic of restyClient unwinds through the operation
ClientFails ==
    /\ op.stage = "client"
    /\ pc[Dispatcher] = "idle"
    /\ returned.result \notin {"none", "ok"}
    /\ op' = [op EXCEPT !.stage = "refused"]
    /\ outcome' = IF returned.result = "panic"
                  THEN Failure(Panic)
                  ELSE Failure(ClientError(returned.result))
    /\ failed' = IF failed = "none"
                    /\ returned.result \in {ErrSessionExpired, ErrRememberTokenExpired}
                 THEN returned.result
                 ELSE failed
    /\ UNCHANGED <<login, request, now, ticks, session, mutex, callerVars, calls,
                   issued, returned, preRefresh, history>>

\* restyClient has returned the client to the operation in progress
ClientReady ==
    /\ op.stage = "client"
    /\ pc[Dispatcher] = "idle"
    /\ returned.result = "ok"

\* the rest of operation name once restyClient has returned the client: with
\* arguments args it sends req, is answered reply, and returns out
Finish(name, args, reply, req, out) ==
    /\ ClientReady
    /\ op.name = name
    /\ op' = [name |-> name, stage |-> "done", args |-> args, reply |-> reply]
    /\ request' = req
    /\ outcome' = out
    /\ UNCHANGED <<login, failed, now, ticks, session, mutex, callerVars, calls, issued,
                   returned, preRefresh, history>>

\* client.R(): a request of the client, which carries the Authorization header
Request(method, path, query, payload) ==
    [method |-> method, path |-> path, query |-> query, body |-> payload,
     auth |-> returned.auth]

\* the result of a request: the transport's error, or the error of a status
\* >= 400, or what the operation makes of the body
Checked(format, reply, value) ==
    IF reply.err THEN Failure(TransportError)
    ELSE IF reply.status >= 400 THEN Failure(Errorf(format, reply))
    ELSE Value(value)

\* Delete with the tokens cleared once the API has invalidated them
Delete_ClearsTokens(reply) ==
    /\ ClientReady
    /\ op.name = "Delete"
    /\ op' = [name |-> "Delete", stage |-> "done", args |-> <<>>, reply |-> reply]
    /\ request' = Request("DELETE", <<"sessions">>, NoQuery, "")
    /\ outcome' = [Checked("%s: %s", reply, NoDoc) EXCEPT !.nil = TRUE]
    /\ session' = IF reply.err \/ reply.status >= 400 THEN session
                  ELSE [session EXCEPT !.Token = EmptyString,
                                       !.RememberToken = EmptyString]
    /\ UNCHANGED <<login, failed, now, ticks, mutex, callerVars, calls, issued,
                   returned, preRefresh, history>>

\* lines 568-577 of Session.Delete: it returns an error only
Delete(reply) ==
    Finish("Delete", <<>>, reply,
           Request("DELETE", <<"sessions">>, NoQuery, ""),
           [Checked("%s: %s", reply, NoDoc) EXCEPT !.nil = TRUE])

\* ------------------------------------------------------------- decoding
\* lines 1200-1210: the FillStatus of each fill of a leg
parseFills(fillsArr) ==
    [idx3 \in 1..Len(fillsArr) |->
        [FillID |-> GetString(fillsArr[idx3], "fill-id"),
         Quantity |-> GetString(fillsArr[idx3], "quantity"),
         FillPrice |-> GetFloat(fillsArr[idx3], "fill-price"),
         FilledAt |-> GetTime(fillsArr[idx3], "filled-at")]]

\* parseLegs that fills the legs from the last to the first
parseLegs_Reversed(legArr) ==
    [idx2 \in 1..Len(legArr) |->
        LET leg == legArr[Len(legArr) + 1 - idx2] IN
        [InstrumentType |-> InstrumentTypeFromString(GetString(leg, "instrument-type")),
         Symbol |-> GetString(leg, "symbol"),
         Quantity |-> GetString(leg, "quantity"),
         Action |-> ActionTypeFromString(GetString(leg, "action")),
         Fills |-> parseFills(GetArray(leg, "fills"))]]

\* lines 1192-1220: the LegStatus of each leg of an order
parseLegs(legArr) ==
    [idx2 \in 1..Len(legArr) |->
        LET leg == legArr[idx2] IN
        [InstrumentType |-> InstrumentTypeFromString(GetString(leg, "instrument-type")),
         Symbol |-> GetString(leg, "symbol"),
         Quantity |-> GetString(leg, "quantity"),
         Action |-> ActionTypeFromString(GetString(leg, "action")),
         Fills |-> parseFills(GetArray(leg, "fills"))]]

\* lines 1233-1244: the ConditionPriceComponents of a condition
parsePriceComponents(priceArr) ==
    [idx4 \in 1..Len(priceArr) |->
        LET priceComp == priceArr[idx4] IN
        [Symbol |-> GetString(priceComp, "symbol"),
         InstrumentType |->
             InstrumentTypeFromString(GetString(priceComp, "instrument-type")),
         Quantity |-> GetString(priceComp, "quantity"),
         QuantityDirection |-> GetString(priceComp, "quantity-direction")]]

\* lines 1225-1259: the ConditionStatus of each condition of a rule
parseConditions(conditionArr) ==
    [idx3 \in 1..Len(conditionArr) |->
        LET condition == conditionArr[idx3] IN
        [ID |-> GetString(condition, "id"),
         Action |-> ActionConditionFromString(GetString(condition, "action")),
         Symbol |-> GetString(condition, "symbol"),
         InstrumentType |->
             InstrumentTypeFromString(GetString(condition, "instrument-type")),
         Indicator |-> IndicatorFromString(GetString(condition, "indicator")),
         Comparator |-> ComparatorFromString(GetString(condition, "comparator")),
         Threshold |-> GetFloat(condition, "threshold"),
         IsThresholdBasedOnNotional |->
             GetBool(condition, "is-threshold-based-on-notional"),
         PriceComponents |-> parsePriceComponents(GetArray(condition, "price-components"))]]

\* lines 1222-1268: the RuleStatus of each rule of an order
parseRules(ruleArr) ==
    [idx2 \in 1..Len(ruleArr) |->
        [RouteAfter |-> GetTime(ruleArr[idx2], "route-after"),
         CancelAt |-> GetTime(ruleArr[idx2], "cancel-at"),
         Conditions |-> parseConditions(GetArray(ruleArr[idx2], "conditions"))]]

\* lines 1186-1311: the OrderStatus of an order document; of the fields that
\* are one scalar of the document, those of each kind (string, float, bool,
\* time, enum) that are listed here
parseOrderStatus(order) ==
    [ID |-> GetString(order, "id"),
     Status |-> GetString(order, "status"),
     Price |-> GetFloat(order, "price"),
     Editable |-> GetBool(order, "editable"),
     ReceivedAt |-> GetTime(order, "received-at"),
     UnderlyingInstrumentType |->
         InstrumentTypeFromString(GetString(order, "underlying-instrument-type")),
     PriceEffect |-> EffectFromString(GetString(order, "price-effect")),
     OrderType |-> OrderTypeFromString(GetString(order, "order-type")),
     Legs |-> parseLegs(GetArray(order, "legs")),
     OrderRule |-> parseRules(GetArray(order, "order-rule"))]

\* lines 1313-1329
parseEffectOnBuyingPower(result) ==
    [ChangeInBuyingPower |-> GetFloat(result, "change-in-buying-power"),
     ChangeInBuyingPowerEffect |->
         EffectFromString(GetString(result, "change-in-buying-power-effect")),
     IsSpread |-> GetBool(result, "is-spread"),
     Impact |-> GetFloat(result, "impact"),
     EffectOnCash |-> EffectFromString(GetString(result, "effect"))]

\* lines 1331-1344
parseFeeInfo(result) ==
    [Commission |-> GetFloat(result, "commission"),
     CommissionEffect |-> EffectFromString(GetString(result, "commission-effect")),
     TotalFees |-> GetFloat(result, "total-fees"),
     TotalFeesEffect |-> EffectFromString(GetString(result, "total-fees-effect"))]

\* parseErrors that keeps the first message only
parseErrors_First(arr) ==
    [idx \in 1..(IF Len(arr) > 0 THEN 1 ELSE 0) |->
        [Code |-> GetString(arr[idx], "code"),
         Message |-> GetString(arr[idx], "message"),
         PreflightID |-> GetString(arr[idx], "preflight-id")]]

\* lines 1346-1356
parseErrors(arr) ==
    [idx \in 1..Len(arr) |->
        [Code |-> GetString(arr[idx], "code"),
         Message |-> GetString(arr[idx], "message"),
         PreflightID |-> GetString(arr[idx], "preflight-id")]]

\* the documents of the API's answers
OrderDocs ==
    {NoDoc,
     ("id" :> "1") @@ ("status" :> "Received")
         @@ ("legs" :> <<"symbol" :> "AAPL", "symbol" :> "SPY">>)}

ErrorDocs ==
    {("code" :> "margin_check_failed") @@ ("message" :> "not enough buying power"),
     ("code" :> "tif_next_valid_sesssion") @@ ("preflight-id" :> "p1")}

\* the arrays of at most MaxErrors error documents
ErrorLists == UNION {[1..n -> ErrorDocs] : n \in 0..MaxErrors}

\* a body with the fields a document has
Body(order, errors, warnings) ==
    (IF order = NoDoc THEN NoDoc ELSE "data.order" :> order)
    @@ (IF errors = <<>> THEN NoDoc ELSE "data.errors" :> errors)
    @@ (IF warnings = <<>> THEN NoDoc ELSE "data.warnings" :> warnings)

\* the bodies of the answers to SubmitOrder: with errors, with warnings, with both
SubmitBodies ==
    {Body(o, e, <<>>) : o \in OrderDocs, e \in ErrorLists}
    \cup {Body(o, <<>>, w) : o \in OrderDocs, w \in ErrorLists}
    \cup {Body(o, e, <<e[Len(e)]>>) : o \in OrderDocs, e \in ErrorLists \ {<<>>}}

ListBodies == {NoDoc, "data.items" :> <<"symbol" :> "AAPL", "id" :> "2">>}

\* SubmitOrder with the error of a status >= 400 returned beside the order
\* decoded from the body
SubmitOrder_Partial(accountNumber, order, reply) ==
    Finish("SubmitOrder", [accountNumber |-> accountNumber, order |-> order], reply,
           Request("POST", <<"sessions", accountNumber, "orders">>, NoQuery, order),
           IF reply.err THEN Failure(TransportError)
           ELSE [err |-> IF reply.status >= 400 THEN Errorf("%s: %s", reply)
                         ELSE NoError,
                 nil |-> FALSE,
                 value |->
                   [Order |-> parseOrderStatus(Get(reply.body, "data.order")),
                    EffectOnBuyingPower |->
                        parseEffectOnBuyingPower(Get(reply.body,
                                                     "data.buying-power-effect")),
                    FeeCalculation |->
                        parseFeeInfo(Get(reply.body, "data.fee-calculation")),
                    Errors |-> parseErrors(GetArray(reply.body, "data.errors")),
                    Warnings |-> parseErrors(GetArray(reply.body, "data.warnings"))]])

\* lines 1143-1163 of Session.SubmitOrder
SubmitOrder(accountNumber, order, reply) ==
    Finish("SubmitOrder", [accountNumber |-> accountNumber, order |-> order], reply,
           Request("POST", <<"sessions", accountNumber, "orders">>, NoQuery, order),
           Checked("%s: %s", reply,
                   [Order |-> parseOrderStatus(Get(reply.body, "data.order")),
                    EffectOnBuyingPower |->
                        parseEffectOnBuyingPower(Get(reply.body,
                                                     "data.buying-power-effect")),
                    FeeCalculation |->
                        parseFeeInfo(Get(reply.body, "data.fee-calculation")),
                    Errors |-> parseErrors(GetArray(reply.body, "data.errors")),
                    Warnings |-> parseErrors(GetArray(reply.body, "data.warnings"))]))

\* lines 1173-1183 of Session.DeleteOrder: the status is not looked at
DeleteOrder(accountNumber, orderID, reply) ==
    Finish("DeleteOrder", [accountNumber |-> accountNumber, orderID |-> orderID], reply,
           Request("DELETE", <<"sessions", accountNumber, "orders", orderID>>,
                   NoQuery, ""),
           IF reply.err THEN Failure(TransportError)
           ELSE Value(parseOrderStatus(Get(reply.body, "data.order"))))

AccountBodies ==
    {NoDoc,
     "data.items" :> <<("account.account-number" :> "5WT00001")
                           @@ ("authority-level" :> "owner")>>}

BalanceBodies ==
    {NoDoc, ("data.account-number" :> "5WT00001") @@ ("data.cash-balance" :> 100)}

\* lines 644-674 of Session.Accounts: AccountNumber and AuthorityLevel of
\* each account
Accounts(reply) ==
    LET arr == GetArray(reply.body, "data.items") IN
    Finish("Accounts", <<>>, reply,
           Request("GET", <<"customers", "me", "accounts">>, NoQuery, ""),
           Checked("%s (accounts): %s", reply,
                   [idx \in 1..Len(arr) |->
                       [AccountNumber |->
                            GetString(arr[idx], "account.account-number"),
                        AuthorityLevel |-> GetString(arr[idx], "authority-level")]]))

\* lines 683-744 of Session.Balance: AccountNumber and CashBalance
Balance(accountNumber, reply) ==
    Finish("Balance", [accountNumber |-> accountNumber], reply,
           Request("GET", <<"accounts", accountNumber, "balances">>, NoQuery, ""),
           Checked("%s (balances): %s", reply,
                   [AccountNumber |-> GetString(reply.body, "data.account-number"),
                    CashBalance |-> GetFloat(reply.body, "data.cash-balance")]))

\* lines 753-814 of Session.BalanceSnapshot: timeOfDay and snapshotDate are
\* not put in the request
BalanceSnapshot(accountNumber, timeOfDay, snapshotDate, reply) ==
    Finish("BalanceSnapshot",
           [accountNumber |-> accountNumber, timeOfDay |-> timeOfDay,
            snapshotDate |-> snapshotDate],
           reply,
           Request("GET", <<"accounts", accountNumber, "balance-snapshots">>,
                   NoQuery, ""),
           Checked("%s (balance-snapshots): %s", reply,
                   [AccountNumber |-> GetString(reply.body, "data.account-number"),
                    CashBalance |-> GetFloat(reply.body, "data.cash-balance")]))

\* lines 823-907 of Session.Positions: Symbol of each position
Positions(accountNumber, filterOpts, reply) ==
    LET arr == GetArray(reply.body, "data.items") IN
    Finish("Positions", [accountNumber |-> accountNumber, filterOpts |-> filterOpts],
           reply,
           Request("GET", <<"accounts", accountNumber, "positions">>,
                   PositionsQuery(filterOpts), ""),
           Checked("%s (positions): %s", reply,
                   [idx \in 1..Len(arr) |-> [Symbol |-> GetString(arr[idx], "symbol")]]))

\* the operation panics while it builds its request: nothing is sent
Panics(name, args) == Finish(name, args, NoReply, NoRequest, Failure(Panic))

\* lines 917-1065 of Session.Transactions: Symbol of each transaction
Transactions(accountNumber, filterOpts, reply) ==
    LET arr == GetArray(reply.body, "data.items")
        args == [accountNumber |-> accountNumber, filterOpts |-> filterOpts] IN
    IF SortPanics(filterOpts) THEN Panics("Transactions", args)
    ELSE Finish("Transactions", args, reply,
                Request("GET", <<"accounts", accountNumber, "transactions">>,
                        TransactionsQuery(filterOpts), ""),
                Checked("%s (transactions): %s", reply,
                        [idx \in 1..Len(arr) |->
                            [Symbol |-> GetString(arr[idx], "symbol")]]))

\* lines 1075-1133 of Session.Orders
Orders(accountNumber, filterOpts, reply) ==
    LET arr == GetArray(reply.body, "data.items")
        args == [accountNumber |-> accountNumber, filterOpts |-> filterOpts] IN
    IF SortPanics(filterOpts) THEN Panics("Orders", args)
    ELSE Finish("Orders", args, reply,
                Request("GET", <<"accounts", accountNumber, "orders">>,
                        OrdersQuery(filterOpts), ""),
                Checked("%s (orders): %s", reply,
                        [idx \in 1..Len(arr) |-> parseOrderStatus(arr[idx])]))

\* the Session NewSession has returned, and nothing called on it yet
Constructed ==
    /\ now \in {0, Second - 1}
    /\ ticks = 0
    /\ \E opt \in SessionOpts, absent \in BOOLEAN :
         /\ session = NewSession(opt, Response(1, absent))
         /\ expiryOf = Issue(<<>>, Response(1, absent))
         /\ login = [opt |-> opt, resp |-> Response(1, absent)]
    /\ mutex = 0
    /\ pc = [c \in Callers |-> "idle"]
    /\ body = [c \in Callers |-> Nil]
    /\ resp = [c \in Callers |-> NoResp]
    /\ calls = 0
    /\ issued = 1
    /\ returned = NoReturn
    /\ found = [c \in Callers |-> Nil]
    /\ during = [c \in Callers |-> Nil]
    /\ preRefresh = Nil
    /\ accepted = {}
    /\ exchangesFor = <<>>
    /\ clientsFor = <<>>

Init ==
    /\ Constructed
    /\ op = NoOp
    /\ request = NoRequest
    /\ outcome = NoOutcome
    /\ failed = "none"

Next ==
    \/ \E d \in Jumps : Tick(d)
    \/ RestoreSession
    \/ \E c \in Callers : Call(c)
    \/ \E c \in Callers : Lock(c)
    \/ \E c \in Callers : LockNil(c)
    \/ \E c \in Callers : CheckRemember(c)
    \/ \E c \in Callers, err \in {"TransportError", "HTTPError"} : ExchangeFails(c, err)
    \/ \E c \in Callers, absent \in BOOLEAN : ExchangeOK(c, absent)
    \/ \E c \in Callers : StoreToken(c)
    \/ \E c \in Callers : StoreRemember(c)
    \/ \E c \in Callers : Attach(c)

Spec == Init /\ [][Next]_vars

\* the scheduling of the goroutines: a caller that can take its next step
\* takes it (a caller waiting in Lock() while the mutex stays free gets it),
\* and the POST /sessions of an exchange returns, with a response or with an
\* error
Fairness ==
    \A c \in Callers :
        /\ WF_vars(Lock(c) \/ LockNil(c) \/ CheckRemember(c) \/ StoreToken(c)
                       \/ StoreRemember(c) \/ Attach(c))
        /\ WF_vars((\E err \in {"TransportError", "HTTPError"} : ExchangeFails(c, err))
                       \/ (\E absent \in BOOLEAN : ExchangeOK(c, absent)))

\* a production Session logged in with RememberMe
InitFair ==
    /\ Init
    /\ now = 0
    /\ login.opt = [RememberMe |-> TRUE, Sandbox |-> FALSE, Debug |-> FALSE]

\* the callers of restyClient under that scheduling
SpecFair == InitFair /\ [][Next]_vars /\ Fairness

\* ----------------------------------------- operations on the Session
DeleteReplies == Replies({NoDoc})
SubmitReplies == Replies(SubmitBodies)
ListReplies == Replies(ListBodies)
PositionFilterOpts == FilterOpts(PositionFilters, NoPositionFilter)
TransactionFilterOpts == FilterOpts(TransactionFilters, NoTransactionFilter)
OrdersFilterOpts == FilterOpts(OrdersFilters, NoOrdersFilter)
AccountReplies == Replies(AccountBodies)
BalanceReplies == Replies(BalanceBodies)

\* the clock advances and the Session is saved and restored before an
\* operation or during it; what happens between two operations happens, as
\* far as the next one can tell, after it has begun
NextOps ==
    \/ op.stage \in {"none", "client"} /\ \E d \in Jumps : Tick(d)
    \/ op.stage \in {"none", "client"} /\ RestoreSession
    \/ \E name \in OpNames : Begin(name)
    \/ ClientCall
    \/ Lock(Dispatcher)
    \/ LockNil(Dispatcher)
    \/ CheckRemember(Dispatcher)
    \/ \E err \in {"TransportError", "HTTPError"} : ExchangeFails(Dispatcher, err)
    \/ \E absent \in BOOLEAN : ExchangeOK(Dispatcher, absent)
    \/ StoreToken(Dispatcher)
    \/ StoreRemember(Dispatcher)
    \/ Attach(Dispatcher)
    \/ ClientFails
    \/ ClientReady /\ \E reply \in DeleteReplies : Delete(reply)
    \/ ClientReady /\ \E reply \in AccountReplies : Accounts(reply)
    \/ ClientReady /\ \E a \in AccountNumbers, reply \in BalanceReplies :
           Balance(a, reply)
    \/ ClientReady /\ \E a \in AccountNumbers, reply \in BalanceReplies :
           BalanceSnapshot(a, "EOD", Date1900 + Second, reply)
    \/ ClientReady /\ \E a \in AccountNumbers, reply \in SubmitReplies :
           SubmitOrder(a, "order", reply)
    \/ ClientReady /\ \E a \in AccountNumbers, reply \in SubmitReplies :
           DeleteOrder(a, "42", reply)
    \/ ClientReady /\ \E a \in AccountNumbers, reply \in ListReplies,
                        f \in PositionFilterOpts : Positions(a, f, reply)
    \/ ClientReady /\ \E a \in AccountNumbers, reply \in ListReplies,
                        f \in TransactionFilterOpts : Transactions(a, f, reply)
    \/ ClientReady /\ \E a \in AccountNumbers, reply \in ListReplies,
                        f \in OrdersFilterOpts : Orders(a, f, reply)

\* a production Session right after the login
InitOps ==
    /\ Init
    /\ now = 0
    /\ ~login.opt.Sandbox

\* the Session used by one goroutine that dispatches operations one after
\* the other
SpecOps == InitOps /\ [][NextOps]_vars

\* ------------------------------------------------- the decoders alone
\* the arrays of at most MaxLen elements of S
Lists(S) == UNION {[1..n -> S] : n \in 0..MaxLen}

FillDocs ==
    <<("fill-id" :> "f1") @@ ("quantity" :> "1") @@ ("fill-price" :> 10)
          @@ ("filled-at" :> 5),
      ("fill-id" :> "f2") @@ ("quantity" :> "2")>>

\* three legs: with two fills, with three fills of which two are the same,
\* and without fills
LegDocs ==
    {("symbol" :> "AAPL") @@ ("instrument-type" :> "Equity")
         @@ ("action" :> "Buy to Open") @@ ("quantity" :> "1")
         @@ ("fills" :> <<FillDocs[1], FillDocs[2]>>),
     ("symbol" :> "SPY") @@ ("instrument-type" :> "Equity Option")
         @@ ("action" :> "Sell to Close")
         @@ ("fills" :> <<FillDocs[2], FillDocs[1], FillDocs[1]>>),
     ("symbol" :> "/ES") @@ ("instrument-type" :> "Future")}

PriceComponentDocs ==
    <<("symbol" :> "AAPL") @@ ("instrument-type" :> "Equity") @@ ("quantity" :> "1")
          @@ ("quantity-direction" :> "Long"),
      ("symbol" :> "SPY") @@ ("quantity-direction" :> "Short")>>

ConditionDocs ==
    <<("id" :> "c1") @@ ("action" :> "route") @@ ("symbol" :> "AAPL")
          @@ ("instrument-type" :> "Equity") @@ ("indicator" :> "last")
          @@ ("comparator" :> "gte") @@ ("threshold" :> 3)
          @@ ("is-threshold-based-on-notional" :> TRUE)
          @@ ("price-components" :> <<PriceComponentDocs[1], PriceComponentDocs[2]>>),
      ("id" :> "c2") @@ ("action" :> "cancel") @@ ("indicator" :> "nat")
          @@ ("comparator" :> "lte")
          @@ ("price-components" :>
                  <<PriceComponentDocs[2], PriceComponentDocs[2], PriceComponentDocs[1]>>),
      ("id" :> "c3") @@ ("action" :> "Route")>>

\* three rules: with three conditions, with two, and without conditions
RuleDocs ==
    {("route-after" :> 7)
         @@ ("conditions" :> <<ConditionDocs[1], ConditionDocs[2], ConditionDocs[3]>>),
     ("conditions" :> <<ConditionDocs[3], ConditionDocs[1]>>),
     ("cancel-at" :> 9)}

\* the scalars of an order document: none of them, or all of them
OrderHeaders ==
    {NoDoc,
     ("id" :> "1") @@ ("status" :> "Received") @@ ("price" :> 12)
         @@ ("editable" :> TRUE) @@ ("received-at" :> 3)
         @@ ("underlying-instrument-type" :> "Equity")
         @@ ("price-effect" :> "Debit") @@ ("order-type" :> "Limit")}

\* the order documents: a header, legs if there are any, rules if there are any
OrderStatusDocs ==
    {h @@ (IF l = <<>> THEN NoDoc ELSE "legs" :> l)
       @@ (IF r = <<>> THEN NoDoc ELSE "order-rule" :> r) :
         h \in OrderHeaders, l \in Lists(LegDocs), r \in Lists(RuleDocs)}

BuyingPowerDocs ==
    {NoDoc,
     ("impact" :> 4) @@ ("effect" :> "Debit"),
     ("change-in-buying-power" :> 4) @@ ("change-in-buying-power-effect" :> "Debit")
         @@ ("is-spread" :> TRUE) @@ ("impact" :> 4) @@ ("effect" :> "Credit")}

FeeDocs ==
    {NoDoc,
     ("total-fees" :> 1) @@ ("total-fees-effect" :> "Debit"),
     ("commission" :> 1) @@ ("commission-effect" :> "Debit") @@ ("total-fees" :> 2)
         @@ ("total-fees-effect" :> "debit")}

\* a call of a decoder that has not run yet
Pending(name, args) == [name |-> name, stage |-> "input", args |-> args, reply |-> NoReply]

DecoderCalls ==
    {Pending("FromString", [enum |-> e, input |-> i]) : e \in Enums, i \in EnumInputs}
    \cup {Pending("String", [enum |-> e, value |-> v]) : e \in Enums, v \in EnumValues}
    \cup {Pending("parseOrderStatus", d) : d \in OrderStatusDocs}
    \cup {Pending("parseEffectOnBuyingPower", d) : d \in BuyingPowerDocs}
    \cup {Pending("parseFeeInfo", d) : d \in FeeDocs}
    \cup {Pending("parseErrors", arr) : arr \in ErrorLists}

\* the decoder called returns value
Decoded(name, value) ==
    /\ op.stage = "input"
    /\ op.name = name
    /\ op' = [op EXCEPT !.stage = "done"]
    /\ outcome' = Value(value)
    /\ UNCHANGED <<login, failed, request, now, ticks, session, mutex, callerVars, calls,
                   issued, returned, preRefresh, history>>

CallFromString ==
    op.name = "FromString"
        /\ Decoded("FromString", FromString(op.args.enum, op.args.input))

CallString ==
    op.name = "String" /\ Decoded("String", String(op.args.enum, op.args.value))

CallParseOrderStatus ==
    op.name = "parseOrderStatus"
        /\ Decoded("parseOrderStatus", parseOrderStatus(op.args))

CallParseEffectOnBuyingPower ==
    op.name = "parseEffectOnBuyingPower"
        /\ Decoded("parseEffectOnBuyingPower", parseEffectOnBuyingPower(op.args))

CallParseFeeInfo ==
    op.name = "parseFeeInfo" /\ Decoded("parseFeeInfo", parseFeeInfo(op.args))

CallParseErrors ==
    op.name = "parseErrors" /\ Decoded("parseErrors", parseErrors(op.args))

NextDecode ==
    \/ CallFromString
    \/ CallString
    \/ CallParseOrderStatus
    \/ CallParseEffectOnBuyingPower
    \/ CallParseFeeInfo
    \/ CallParseErrors

\* a decoder is about to be called on one of its inputs
InitDecode ==
    /\ Constructed
    /\ now = 0
    /\ login.opt = [RememberMe |-> TRUE, Sandbox |-> FALSE, Debug |-> FALSE]
    /\ login.resp.rememberToken # Nil
    /\ op \in DecoderCalls
    /\ request = NoRequest
    /\ outcome = NoOutcome
    /\ failed = "none"

\* the decoders, each applied to each of its inputs
SpecDecode == InitDecode /\ [][NextDecode]_vars

\* ------------------------------------------------------------- the claims
\* the callers inside the critical section of restyClient, lines 599-629
InRefresh == {c \in Callers : pc[c] \in {"remember", "exchange", "storeToken", "storeRemember"}}

\* caller c returns from restyClient in this step
Returns(c) == pc[c] # "idle" /\ pc'[c] = "idle"

\* C1: callers that found the same session token expired cause one renewal
\* exchange between them, and the clients they get carry the same token
C1_OneExchangeSameToken ==
    /\ \A t \in DOMAIN exchangesFor : IsToken(t) => exchangesFor[t] <= 1
    /\ \A t \in DOMAIN clientsFor : Cardinality(clientsFor[t]) <= 1

\* C2: a caller that entered restyClient while another caller was refreshing
\* never returns a client that carries the pre-refresh session token
C2_NeverPreRefreshToken ==
    [][\A c \in Callers :
         (pc[c] = "attach" /\ Returns(c) /\ IsToken(during[c]))
             => returned'.auth # during[c]]_vars

\* C3: at most one renewal exchange is in flight, and a caller between the
\* read of the remember token and the last store holds the RefreshLocker
C3_OneExchangeInFlight ==
    /\ Cardinality({c \in Callers : pc[c] = "exchange"}) <= 1
    /\ \A c \in InRefresh : mutex = c

\* C3 witness: an exchange is in flight while another caller waits for the lock
C3_Witness ==
    \E c, d \in Callers : pc[c] = "exchange" /\ pc[d] = "lock"

\* C4: the expiry check starts a refresh whenever now >= ExpiresOn - 5 minutes
\* and starts none when now < ExpiresOn - 5 minutes - 1 second
C4_ExpiryBuffer ==
    [][\A c \in Callers :
         (pc[c] = "idle" /\ pc'[c] # "idle")
             => /\ now >= session.ExpiresOn - Buffer => pc'[c] = "lock"
                /\ now < session.ExpiresOn - Buffer - Second => pc'[c] = "attach"]_vars

\* C5: the session token of a client restyClient returns is valid: the expiry
\* issued with that token is later than the time of the return
C5_AttachedTokenValid ==
    [][\A c \in Callers :
         (pc[c] = "attach" /\ Returns(c) /\ IsToken(returned'.auth))
             => expiryOf[returned'.auth] > now]_vars

\* C6: a remember token the API accepted in an exchange is never sent in a
\* later exchange, and once a refresh has stored its result that token is no
\* longer the Session's remember token
C6_RememberSingleUse ==
    /\ \A c \in Callers : pc[c] = "exchange" => body[c] \notin accepted
    /\ (\A c \in Callers : pc[c] \notin {"storeToken", "storeRemember"})
           => session.RememberToken \notin accepted

\* C6 witness: an exchange is in flight after an earlier one was accepted
C6_Witness ==
    /\ accepted # {}
    /\ \E c \in Callers : pc[c] = "exchange"

\* C7: a call that finds the session token expired on a Session without a
\* remember-me token returns ErrSessionExpired and leaves the Session as it is
C7_NoRememberToken ==
    [][\A c \in Callers :
         (pc[c] \in {"lock", "remember"} /\ Returns(c)
            /\ ~IsToken(session.RememberToken))
             => /\ returned'.result = ErrSessionExpired
                /\ session' = session
                /\ issued' = issued]_vars

\* C8: a call that finds the session token expired on a Session whose
\* remember-me token is set and expired returns ErrRememberTokenExpired and
\* leaves the Session as it is
C8_RememberTokenExpired ==
    [][\A c \in Callers :
         (pc[c] \in {"lock", "remember"} /\ Returns(c)
            /\ IsToken(session.RememberToken)
            /\ Before(session.RememberMeExpiresOn, now))
             => /\ returned'.result = ErrRememberTokenExpired
                /\ session' = session
                /\ issued' = issued]_vars

\* C9: when the renewal exchange fails, restyClient returns that error, the
\* call ends there, and the Session keeps the fields it had: the token is
\* still the one it held when the caller took the lock
C9_FailedExchange ==
    [][\A c \in Callers :
         (pc[c] = "exchange" /\ pc'[c] # "storeToken" /\ pc'[c] # "exchange")
             => /\ Returns(c)
                /\ returned'.result \in {"TransportError", "HTTPError"}
                /\ returned'.auth = Nil
                /\ session' = session
                /\ session.Token = preRefresh]_vars

\* C9 witness: a restyClient returned the error of its failed exchange
C9_Witness ==
    returned.result \in {"TransportError", "HTTPError"}

\* C10: when a refresh has stored the response, ExpiresOn and
\* RememberMeExpiresOn are its received time + 24 hours and + 28 days, Token is
\* its session token and RememberToken its remember token
C10_RefreshStoresResponse ==
    \A c \in Callers :
        (pc[c] = "attach" /\ mutex = c)
            => /\ session.ExpiresOn = resp[c].ReceivedAt + SessionTTL
               /\ session.RememberMeExpiresOn = resp[c].ReceivedAt + RememberTTL
               /\ session.Token = resp[c].sessionToken
               /\ session.RememberToken = resp[c].rememberToken

\* the Session holds what NewSession stored: no refresh has written to it and
\* it has not been saved and restored
AsLoggedIn == issued = 1 /\ session.RefreshLocker = "mutex"

C12_LoginRememberToken ==
    (AsLoggedIn /\ login.opt.RememberMe)
        => session.RememberToken = login.resp.rememberToken

\* C13: on a restored Session whose session token is found expired and whose
\* remember token is set and not expired, the call takes the refresh lock and
\* goes on to the renewal exchange; it does not end at the lock
C13_RestoredSessionRefreshes ==
    [][\A c \in Callers :
         (/\ pc[c] = "lock" /\ pc'[c] # "lock"
          /\ session.RefreshLocker = "nil"
          /\ IsToken(session.RememberToken)
          /\ ~Before(session.RememberMeExpiresOn, now))
             => /\ pc'[c] = "remember"
                /\ mutex' = c
                /\ returned'.result # "panic"]_vars

\* C14: every Session the program holds can be saved, and restoring what was
\* saved gives a Session equal to it in every field but the lock
C14_RoundTrip ==
    /\ ~MarshalPanics(session)
    /\ [NewSessionFromBytes(Marshal(session)) EXCEPT !.RefreshLocker = "mutex"]
           = [session EXCEPT !.RefreshLocker = "mutex"]

\* operation name has sent its request and returned
Done(name) == op.stage = "done" /\ op.name = name /\ request.method # "none"

\* the API answered the operation's request with a status >= 400
Rejected == ~op.reply.err /\ op.reply.status >= 400

\* the API answered the operation's request with a status < 400
Answered == ~op.reply.err /\ op.reply.status < 400

\* C15: once restyClient has returned the client, Delete sends the request
\* DELETE /sessions with the Session's token; it returns an error that carries
\* the status when the status is >= 400 and no error when it is lower; and
\* the step leaves Token and RememberToken (and every other field) as they are
C15_DeleteKeepsTokens ==
    [][(ClientReady /\ op.name = "Delete" /\ op'.stage = "done")
          => /\ request' = [method |-> "DELETE", path |-> <<"sessions">>,
                            query |-> NoQuery, body |-> "",
                            auth |-> session.Token]
             /\ (~op'.reply.err /\ op'.reply.status >= 400)
                    => /\ outcome'.err.kind = "status"
                       /\ outcome'.err.status = op'.reply.status
             /\ (~op'.reply.err /\ op'.reply.status < 400)
                    => outcome'.err = NoError
             /\ session' = session]_vars

\* C15 witness: Delete returned without error and the Session still holds
\* its tokens
C15_Witness ==
    /\ Done("Delete") /\ Answered
    /\ outcome.err = NoError
    /\ IsToken(session.Token) /\ IsToken(session.RememberToken)

\* C16: SubmitOrder answered with a status >= 400 returns an error that
\* carries the status and the body, and a nil OrderResponse
C16_SubmitOrderRejected ==
    (Done("SubmitOrder") /\ Rejected)
        => /\ outcome.err.kind = "status"
           /\ outcome.err.status = op.reply.status
           /\ outcome.err.body = op.reply.body
           /\ outcome.nil
           /\ outcome.value = NoDoc

\* C16 witness: SubmitOrder was answered 422
C16_Witness ==
    /\ Done("SubmitOrder") /\ Rejected
    /\ op.reply.status = 422
    /\ outcome.err.status = 422

\* C17: SubmitOrder answered with a status < 400 returns a nil error and an
\* OrderResponse whose Errors has one entry for each element of data.errors,
\* in the same order, Warnings likewise for data.warnings, and whose Order is
\* decoded from data.order
C17_SubmitOrderErrors ==
    (Done("SubmitOrder") /\ Answered)
        => LET errors == GetArray(op.reply.body, "data.errors")
               warnings == GetArray(op.reply.body, "data.warnings") IN
           /\ outcome.err = NoError
           /\ ~outcome.nil
           /\ Len(outcome.value.Errors) = Len(errors)
           /\ \A i \in 1..Len(errors) :
                  /\ outcome.value.Errors[i].Code = GetString(errors[i], "code")
                  /\ outcome.value.Errors[i].Message = GetString(errors[i], "message")
                  /\ outcome.value.Errors[i].PreflightID
                         = GetString(errors[i], "preflight-id")
           /\ Len(outcome.value.Warnings) = Len(warnings)
           /\ \A i \in 1..Len(warnings) :
                  /\ outcome.value.Warnings[i].Code = GetString(warnings[i], "code")
                  /\ outcome.value.Warnings[i].Message
                         = GetString(warnings[i], "message")
                  /\ outcome.value.Warnings[i].PreflightID
                         = GetString(warnings[i], "preflight-id")
           /\ outcome.value.Order.ID
                  = GetString(Get(op.reply.body, "data.order"), "id")

\* C17 witness: SubmitOrder was answered 200 with two different errors and an
\* order, and returned both errors
C17_Witness ==
    /\ Done("SubmitOrder") /\ Answered
    /\ op.reply.status = 200
    /\ Len(GetArray(op.reply.body, "data.errors")) = 2
    /\ Len(outcome.value.Errors) = 2
    /\ outcome.value.Errors[1].Code # outcome.value.Errors[2].Code
    /\ outcome.value.Order.ID # ""

\* C18: DeleteOrder answered with a status >= 400 returns an error that
\* carries the status and the body, and no OrderStatus
C18_DeleteOrderRejected ==
    (Done("DeleteOrder") /\ Rejected)
        => /\ outcome.err.kind = "status"
           /\ outcome.err.status = op.reply.status
           /\ outcome.err.body = op.reply.body
           /\ outcome.nil

\* a call of Transactions or Orders that passed filterOpts has returned
Filtered(name) ==
    /\ op.stage = "done"
    /\ op.name = name
    /\ Len(op.args.filterOpts) > 0

\* C19: when Transactions or Orders is passed a filter with only PerPage = 50
\* set, the query parameters of the request are exactly per-page=50 and
\* sort=desc; whatever the filter, sort is sent, and a parameter other than
\* sort is sent only if the filter sets a field
C19_FilterParameters ==
    LET only == ("per-page" :> <<"50">>) @@ ("sort" :> <<"desc">>) IN
    /\ Filtered("Transactions") =>
          /\ request.method = "GET"
          /\ "sort" \in DOMAIN request.query
          /\ op.args.filterOpts[1] = [NoTransactionFilter EXCEPT !.PerPage = 50]
                 => request.query = only
          /\ op.args.filterOpts[1] \in
                 {NoTransactionFilter, [NoTransactionFilter EXCEPT !.Sort = Desc]}
                 => DOMAIN request.query = {"sort"}
    /\ Filtered("Orders") =>
          /\ request.method = "GET"
          /\ "sort" \in DOMAIN request.query
          /\ op.args.filterOpts[1] = [NoOrdersFilter EXCEPT !.PerPage = 50]
                 => request.query = only
          /\ op.args.filterOpts[1] \in
                 {NoOrdersFilter, [NoOrdersFilter EXCEPT !.Sort = Desc]}
                 => DOMAIN request.query = {"sort"}

\* C20: a call of Positions, Transactions or Orders that passes one filter
\* sends the parameters of the fields the filter sets (for Transactions and
\* Orders, sort among them), and a call that passes none sends no parameter
C20_OneFilterApplied ==
    /\ \A name \in {"Positions", "Transactions", "Orders"} :
           (Done(name) /\ Len(op.args.filterOpts) = 0) => request.query = NoQuery
    /\ (Done("Positions") /\ Len(op.args.filterOpts) = 1)
           => request.query
                 = PositionsQuery(<<op.args.filterOpts[1], NoPositionFilter>>)
    /\ \A name \in {"Transactions", "Orders"} :
           (Filtered(name) /\ Len(op.args.filterOpts) = 1)
               => /\ request.method = "GET"
                  /\ "sort" \in DOMAIN request.query
\* a call of the decoder or of the method name has returned
Returned(name) == op.stage = "done" /\ op.name = name

\* C21: for every defined variant V of an enum with a decoder,
\* FromString(V.String()) is V, String of that is V.String() again, no other
\* defined variant has the string of V, and the decoder called on the string
\* of a defined variant returns that variant
C21_EnumRoundTrip ==
    /\ (Returned("String") /\ op.args.value \in Defined(op.args.enum))
           => /\ FromString(op.args.enum, outcome.value) = op.args.value
              /\ String(op.args.enum, FromString(op.args.enum, outcome.value))
                     = outcome.value
              /\ \A w \in Defined(op.args.enum) \ {op.args.value} :
                     String(op.args.enum, w) # outcome.value
    /\ Returned("FromString")
           => \A v \in Defined(op.args.enum) :
                  op.args.input = String(op.args.enum, v) => outcome.value = v

\* C21 witness: String of StopLimit has returned "StopLimit"
C21_Witness ==
    /\ Returned("String")
    /\ op.args = [enum |-> "OrderTypeChoice", value |-> StopLimit]
    /\ outcome.value = "StopLimit"

\* C22: a decoder called on a string that is the string of none of the
\* defined variants of its enum (the empty string and "UNK" are such strings)
\* returns the Undefined variant and no error, and String of the Undefined
\* variant and of a value that is no variant is "UNK"
C22_DecoderTotal ==
    /\ (Returned("FromString")
           /\ \A v \in Defined(op.args.enum) : op.args.input # String(op.args.enum, v))
           => /\ outcome.err = NoError
              /\ ~outcome.nil
              /\ outcome.value = Undefined(op.args.enum)
    /\ (Returned("String") /\ op.args.value \notin Defined(op.args.enum))
           => outcome.value = "UNK"

\* C22 witness: ActionConditionFromString called on "Route", a word of the
\* vocabulary in another case, has returned UndefinedActionCondition
C22_Witness ==
    /\ Returned("FromString")
    /\ op.args = [enum |-> "ActionCondition", input |-> "Route"]
    /\ outcome.value = UndefinedActionCondition

\* C23: parseOrderStatus keeps the length and the order of every array of
\* the order document: Legs has one entry for each element of legs, entry i
\* decoded from element i, the Fills of leg i one entry for each of its
\* fills in their order, and likewise OrderRule for order-rule, the
\* Conditions of a rule for its conditions, and the PriceComponents of a
\* condition for its price-components
C23_ArraysPreserved ==
    Returned("parseOrderStatus")
        => LET legArr == GetArray(op.args, "legs")
               ruleArr == GetArray(op.args, "order-rule")
               Legs == outcome.value.Legs
               OrderRule == outcome.value.OrderRule IN
           /\ DOMAIN Legs = 1..Len(legArr)
           /\ \A i \in 1..Len(legArr) :
                  LET fillsArr == GetArray(legArr[i], "fills") IN
                  /\ Legs[i].Symbol = GetString(legArr[i], "symbol")
                  /\ Legs[i].Quantity = GetString(legArr[i], "quantity")
                  /\ DOMAIN Legs[i].Fills = 1..Len(fillsArr)
                  /\ \A j \in 1..Len(fillsArr) :
                         /\ Legs[i].Fills[j].FillID = GetString(fillsArr[j], "fill-id")
                         /\ Legs[i].Fills[j].Quantity
                                = GetString(fillsArr[j], "quantity")
           /\ DOMAIN OrderRule = 1..Len(ruleArr)
           /\ \A i \in 1..Len(ruleArr) :
                  LET conditionArr == GetArray(ruleArr[i], "conditions")
                      Conditions == OrderRule[i].Conditions IN
                  /\ OrderRule[i].RouteAfter = GetTime(ruleArr[i], "route-after")
                  /\ OrderRule[i].CancelAt = GetTime(ruleArr[i], "cancel-at")
                  /\ DOMAIN Conditions = 1..Len(conditionArr)
                  /\ \A j \in 1..Len(conditionArr) :
                         LET priceArr == GetArray(conditionArr[j], "price-components")
                             PriceComponents == Conditions[j].PriceComponents IN
                         /\ Conditions[j].ID = GetString(conditionArr[j], "id")
                         /\ DOMAIN PriceComponents = 1..Len(priceArr)
                         /\ \A k \in 1..Len(priceArr) :
                                /\ PriceComponents[k].Symbol
                                       = GetString(priceArr[k], "symbol")
                                /\ PriceComponents[k].QuantityDirection
                                       = GetString(priceArr[k], "quantity-direction")

\* C23 witness: an order of three different legs, the second with three
\* fills, and of a rule of three conditions was decoded, and the legs came
\* out in the order of the document
C23_Witness ==
    /\ Returned("parseOrderStatus")
    /\ Len(GetArray(op.args, "legs")) = 3
    /\ <<outcome.value.Legs[1].Symbol, outcome.value.Legs[2].Symbol,
          outcome.value.Legs[3].Symbol>> = <<"AAPL", "SPY", "/ES">>
    /\ Len(outcome.value.Legs[2].Fills) = 3
    /\ Len(outcome.value.OrderRule) > 0
    /\ Len(outcome.value.OrderRule[1].Conditions) = 3
    /\ Len(outcome.value.OrderRule[1].Conditions[2].PriceComponents) = 3

\* the field decoded from the path of the document is the zero value of
\* its type when the document has no such path
ZeroIfAbsent(doc, path, field, zero) == path \notin DOMAIN doc => field = zero

\* C30: the resource decoders return a result, never nil, for every
\* document: a field whose path is absent is the zero value of its type
\* (the empty string, 0, false, the zero time, the Undefined variant), an
\* absent array an empty sequence, and the document that has no path at all
\* decodes to the all-zero OrderStatus with no Legs and no OrderRule
C30_AbsentIsZero ==
    /\ Returned("parseOrderStatus")
           => LET d == op.args
                  v == outcome.value IN
              /\ ~outcome.nil /\ outcome.err = NoError
              /\ ZeroIfAbsent(d, "id", v.ID, "")
              /\ ZeroIfAbsent(d, "status", v.Status, "")
              /\ ZeroIfAbsent(d, "price", v.Price, 0)
              /\ ZeroIfAbsent(d, "editable", v.Editable, FALSE)
              /\ ZeroIfAbsent(d, "received-at", v.ReceivedAt, ZeroTime)
              /\ ZeroIfAbsent(d, "underlying-instrument-type",
                              v.UnderlyingInstrumentType, UndefinedInstrument)
              /\ ZeroIfAbsent(d, "price-effect", v.PriceEffect, UndefinedEffect)
              /\ ZeroIfAbsent(d, "order-type", v.OrderType, UndefinedOrderType)
              /\ ZeroIfAbsent(d, "legs", v.Legs, <<>>)
              /\ ZeroIfAbsent(d, "order-rule", v.OrderRule, <<>>)
              /\ \A i \in DOMAIN v.Legs :
                     /\ ZeroIfAbsent(d["legs"][i], "fills", v.Legs[i].Fills, <<>>)
                     /\ ZeroIfAbsent(d["legs"][i], "action", v.Legs[i].Action,
                                     UndefinedAction)
                     /\ \A j \in DOMAIN v.Legs[i].Fills :
                            LET fill == d["legs"][i]["fills"][j] IN
                            /\ ZeroIfAbsent(fill, "fill-price",
                                            v.Legs[i].Fills[j].FillPrice, 0)
                            /\ ZeroIfAbsent(fill, "filled-at",
                                            v.Legs[i].Fills[j].FilledAt, ZeroTime)
              /\ \A i \in DOMAIN v.OrderRule :
                     /\ ZeroIfAbsent(d["order-rule"][i], "route-after",
                                     v.OrderRule[i].RouteAfter, ZeroTime)
                     /\ ZeroIfAbsent(d["order-rule"][i], "conditions",
                                     v.OrderRule[i].Conditions, <<>>)
                     /\ \A j \in DOMAIN v.OrderRule[i].Conditions :
                            LET condition == d["order-rule"][i]["conditions"][j]
                                c == v.OrderRule[i].Conditions[j] IN
                            /\ ZeroIfAbsent(condition, "price-components",
                                            c.PriceComponents, <<>>)
                            /\ ZeroIfAbsent(condition, "threshold", c.Threshold, 0)
                            /\ ZeroIfAbsent(condition, "comparator", c.Comparator,
                                            UndefinedComparator)
                            /\ ZeroIfAbsent(condition, "is-threshold-based-on-notional",
                                            c.IsThresholdBasedOnNotional, FALSE)
              /\ d = NoDoc
                     => v = [ID |-> "", Status |-> "", Price |-> 0, Editable |-> FALSE,
                             ReceivedAt |-> ZeroTime,
                             UnderlyingInstrumentType |-> UndefinedInstrument,
                             PriceEffect |-> UndefinedEffect,
                             OrderType |-> UndefinedOrderType,
                             Legs |-> <<>>, OrderRule |-> <<>>]
    /\ Returned("parseEffectOnBuyingPower")
           => LET d == op.args
                  v == outcome.value IN
              /\ ~outcome.nil /\ outcome.err = NoError
              /\ ZeroIfAbsent(d, "change-in-buying-power", v.ChangeInBuyingPower, 0)
              /\ ZeroIfAbsent(d, "change-in-buying-power-effect",
                              v.ChangeInBuyingPowerEffect, UndefinedEffect)
              /\ ZeroIfAbsent(d, "is-spread", v.IsSpread, FALSE)
              /\ ZeroIfAbsent(d, "impact", v.Impact, 0)
              /\ ZeroIfAbsent(d, "effect", v.EffectOnCash, UndefinedEffect)
    /\ Returned("parseFeeInfo")
           => LET d == op.args
                  v == outcome.value IN
              /\ ~outcome.nil /\ outcome.err = NoError
              /\ ZeroIfAbsent(d, "commission", v.Commission, 0)
              /\ ZeroIfAbsent(d, "commission-effect", v.CommissionEffect,
                              UndefinedEffect)
              /\ ZeroIfAbsent(d, "total-fees", v.TotalFees, 0)
              /\ ZeroIfAbsent(d, "total-fees-effect", v.TotalFeesEffect,
                              UndefinedEffect)
    /\ Returned("parseErrors")
           => /\ ~outcome.nil /\ outcome.err = NoError
              /\ DOMAIN outcome.value = 1..Len(op.args)
              /\ \A i \in 1..Len(op.args) :
                     /\ ZeroIfAbsent(op.args[i], "code", outcome.value[i].Code, "")
                     /\ ZeroIfAbsent(op.args[i], "message", outcome.value[i].Message, "")
                     /\ ZeroIfAbsent(op.args[i], "preflight-id",
                                     outcome.value[i].PreflightID, "")

\* C30 witness: parseOrderStatus was called on the document of an absent
\* data.order and returned an OrderStatus with no Legs, no OrderRule and the
\* zero time as ReceivedAt
C30_Witness ==
    /\ Returned("parseOrderStatus")
    /\ op.args = NoDoc
    /\ ~outcome.nil
    /\ outcome.value.Legs = <<>>
    /\ outcome.value.OrderRule = <<>>
    /\ outcome.value.ReceivedAt = ZeroTime

\* C24: an operation has sent a resource request only after the restyClient
\* it called returned a client, whose Authorization header the request
\* carries; and when its restyClient returned an error, the operation has
\* returned that error and nothing else, and has sent no request
C24_ClientFirst ==
    /\ request.method # "none"
           => /\ op.stage = "done"
              /\ returned.result = "ok"
              /\ request.auth = returned.auth
    /\ (op.stage = "refused" /\ returned.result # "panic")
           => /\ outcome = Failure(ClientError(returned.result))
              /\ request = NoRequest

\* C24 witness: Accounts has returned the ErrRememberTokenExpired of its
\* restyClient
C24_Witness ==
    /\ op.name = "Accounts"
    /\ op.stage = "refused"
    /\ returned.result = ErrRememberTokenExpired
    /\ outcome.err.text = ErrRememberTokenExpired
    /\ request = NoRequest

\* C25: an exchange is sent, and answered, only for a caller inside a
\* restyClient whose expiry check found the session token expired; a
\* restyClient whose check finds the token not expired goes straight to
\* attaching the token, and neither its check nor its return sends an
\* exchange, takes the lock or writes a field of the Session
C25_LazyRefresh ==
    [][\A c \in Callers :
          /\ (pc[c] # "exchange" /\ pc'[c] = "exchange")
                 => (pc[c] = "remember" /\ found[c] # Nil /\ mutex = c)
          /\ issued' # issued
                 => \E r \in Callers : pc[r] = "exchange" /\ found[r] # Nil
          /\ (pc[c] = "idle" /\ pc'[c] # "idle" /\ ~SessionTokenExpired)
                 => /\ pc'[c] = "attach"
                    /\ UNCHANGED <<session, mutex, issued, body>>
          /\ (pc[c] = "attach" /\ pc'[c] = "idle" /\ found[c] = Nil)
                 => /\ returned'.result = "ok"
                    /\ UNCHANGED <<session, mutex, issued, body>>]_vars

\* C25 witness: the one restyClient called so far has returned its client,
\* no exchange was answered and the Session is as the login left it
C25_Witness ==
    /\ calls = 1
    /\ returned.result = "ok"
    /\ \A c \in Callers : pc[c] = "idle"
    /\ issued = 1
    /\ accepted = {}
    /\ mutex = 0
    /\ session = NewSession(login.opt, login.resp)

\* the fields of a Session that no renewal writes
Kept(s) ==
    <<s.Username, s.Name, s.Nickname, s.Email, s.ExternalID, s.AuthenticatedOn,
      s.ApiURL, s.AccountStreamerURL, s.Debug, s.RefreshLocker>>

\* C26: a step that is no deserialization and changes the Session is a step
\* of a renewal whose exchange was answered 2xx, and it leaves Username,
\* Name, Nickname, Email, ExternalID, AuthenticatedOn, ApiURL and
\* AccountStreamerURL (and Debug and RefreshLocker) as they were: no step of
\* an operation, Delete included, and no failed renewal writes a field
C26_IdentityKept ==
    [][session' # session
          => \/ /\ pc' = pc
                /\ session' = NewSessionFromBytes(Marshal(session))
             \/ /\ Kept(session') = Kept(session)
                /\ op' = op
                /\ \E c \in Callers :
                       /\ pc[c] \in {"exchange", "storeToken", "storeRemember"}
                       /\ pc'[c] # pc[c]
                       /\ resp'[c] # NoResp]_vars

\* C26 witness: Delete was answered 2xx on a Session that a renewal has
\* given another session token, and the Session has the identity, the
\* AuthenticatedOn and the URLs of the login
C26_Witness ==
    /\ Done("Delete") /\ Answered
    /\ issued = 2
    /\ session.Token # login.resp.sessionToken
    /\ session.RefreshLocker = "mutex"
    /\ Kept(session) = Kept(NewSession(login.opt, login.resp))

\* C27: when Transactions or Orders puts a filter in its request,
\* start-date is a parameter of the request if and only if the StartDate of
\* the filter is later than 1900-01-01T00:00:00Z, and end-date if and only
\* if its EndDate is: the zero date, a date before 1900 and
\* 1900-01-01T00:00:00Z itself send no parameter
C27_DatesAfter1900 ==
    \A name \in {"Transactions", "Orders"} :
        (Filtered(name) /\ FilterApplied(op.args.filterOpts) /\ request.method # "none")
            => LET filter == op.args.filterOpts[1]
                   sent == DOMAIN request.query IN
               /\ "start-date" \in sent <=> filter.StartDate > Date1900
               /\ "end-date" \in sent <=> filter.EndDate > Date1900
               /\ filter.StartDate \in {ZeroTime, Date1900 - 1, Date1900}
                      => "start-date" \notin sent
               /\ filter.EndDate \in {ZeroTime, Date1900 - 1, Date1900}
                      => "end-date" \notin sent

\* C27 witness: Transactions has sent the start-date of a filter whose
\* StartDate is the instant after 1900-01-01T00:00:00Z and whose EndDate is
\* the zero date, and no end-date
C27_Witness ==
    /\ Filtered("Transactions")
    /\ FilterApplied(op.args.filterOpts)
    /\ op.args.filterOpts[1].StartDate = Date1900 + 1
    /\ op.args.filterOpts[1].EndDate = ZeroTime
    /\ "start-date" \in DOMAIN request.query
    /\ "end-date" \notin DOMAIN request.query

\* C28: once an operation on a Session has returned ErrSessionExpired or
\* ErrRememberTokenExpired, every operation that has returned on that
\* Session since (a restored Session is another Session, which has no
\* RefreshLocker) has returned that same error and has sent no request
C28_TerminalFailure ==
    (failed # "none" /\ session.RefreshLocker = "mutex"
         /\ op.stage \in {"refused", "done"})
        => /\ op.stage = "refused"
           /\ returned.result = failed
           /\ outcome = Failure(ClientError(failed))
           /\ request = NoRequest

\* C28 witness: the second operation on a Session whose first operation
\* returned ErrRememberTokenExpired has returned, and returned it too
C28_Witness ==
    /\ failed = ErrRememberTokenExpired
    /\ calls = 2
    /\ session.RefreshLocker = "mutex"
    /\ op.stage = "refused"
    /\ outcome.err.text = ErrRememberTokenExpired

\* C29: a caller that returns from restyClient, by whichever exit, holds
\* the refresh lock no longer; and, provided each exchange request returns,
\* no caller stays inside restyClient for ever: the callers, who call it
\* MaxCalls times at most, are in the end all out of it, and the lock free
C29_CallersReturn ==
    /\ [][\A c \in Callers :
              (pc[c] # "idle" /\ pc'[c] = "idle")
                  => (mutex' # c /\ (mutex # c => mutex' = mutex))]_vars
    /\ <>[](mutex = 0 /\ \A c \in Callers : pc[c] = "idle")

\* C29 witness: a caller waits in Lock() while the other caller, who holds
\* the lock, has its exchange in flight
C29_Witness ==
    \E c, r \in Callers :
        /\ c # r
        /\ pc[c] = "lock"
        /\ pc[r] = "exchange"
        /\ mutex = r

====
